---- MODULE Spec2Model ----
(***************************************************************************)
(* The Hack assembler of teocs (src/assembler/assembler.py): the line      *)
(* reader Parser.advance, the classifier Parser.commandType, the field     *)
(* extractors, the Code tables, the SymbolTable, dec2bin and the two       *)
(* passes of main; and its VM translator                                   *)
(* (src/vmtranslator/src/VMtranslator.py): Parser, CodeWriter and main,    *)
(* with the Hack machine the translated programs run on.                   *)
(*                                                                         *)
(* A Python string is modelled as a sequence of one-character strings, so  *)
(* that the regular expressions of the source are modelled by what they    *)
(* match, character by character.                                          *)
(***************************************************************************)
EXTENDS Integers, Sequences, FiniteSets, TLC

VARIABLES
    file,       \* the .asm file: the sequence of raw lines readline() returns
    pc,         \* where main is: "first", "second", "done" or "error"
    pos,        \* number of lines the current Parser has read from the file
    line,       \* Parser._line, the current command
    romAddr,    \* main's romAddr
    ramAddr,    \* main's ramAddr
    table,      \* SymbolTable._table
    hack,       \* the lines written to the .hack file
    written     \* history: for each line of hack, the number of the source
                \* line it was written for (src) and, for an A_COMMAND, the
                \* address that was resolved (address; -1 for a C_COMMAND)

asmvars == <<file, pc, pos, line, romAddr, ramAddr, table, hack, written>>

\* The VM translator (src/vmtranslator/src/VMtranslator.py)
VARIABLES
    run,        \* what a run is given: sys.argv[1], whether it is a directory,
                \* what os.listdir returns for it, and what the files hold
    vpc,        \* where main is: "for" (at the top of the loop over the
                \* files), "while" (in the loop over the commands of a file),
                \* "done" or "error"
    fileNo,     \* the number of files of fileList the for loop has taken
    vpos,       \* number of lines the current Parser has read from its file
    codeWriter, \* main's codeWriter: the attributes of the CodeWriter
    asm,        \* the lines written to the .asm file
    log         \* history: one record for each call of writeInit, setFileName
                \* and of a write method

vmvars == <<run, vpc, fileNo, vpos, codeWriter, asm, log>>

\* The Hack machine that runs the lines the CodeWriter writes
VARIABLES
    rom,        \* the program loaded: a sequence of decoded instructions
    ip,         \* the address of the instruction to execute next
    prev,       \* history: the address of the instruction executed last, -1
                \* before the first
    regA,       \* the A register
    regD,       \* the D register
    ram,        \* the data memory, as far as the runs use it
    scenario    \* history: what the run started from

hackvars == <<rom, ip, prev, regA, regD, ram, scenario>>

vars == <<asmvars, vmvars, hackvars>>

---------------------------------------------------------------------------
(* Strings *)

\* what \s of Python's re matches, among the characters the model uses
WHITESPACE == {" ", "\t", "\n"}

\* what \d matches
DIGIT == {"0", "1", "2", "3", "4", "5", "6", "7", "8", "9"}

\* Python's None
None == <<"None">>

Last(s) == s[Len(s)]

IsPrefix(p, s) == Len(p) <= Len(s) /\ SubSeq(s, 1, Len(p)) = p

IsSuffix(p, s) == Len(p) <= Len(s) /\ SubSeq(s, Len(s) - Len(p) + 1, Len(s)) = p

\* the string without the characters of a set
RECURSIVE Without(_, _)
Without(s, chars) ==
    IF s = <<>> THEN <<>>
    ELSE IF s[1] \in chars THEN Without(Tail(s), chars)
    ELSE <<s[1]>> \o Without(Tail(s), chars)

\* the part of s a pattern that ends with '$' has to match in full. '$'
\* matches at the end of the string, and just before a newline that ends the
\* string; nothing in the patterns of the source matches a newline, so the
\* match ends before the final newline when there is one, else at the end
Body(s) == IF s # <<>> /\ Last(s) = "\n" THEN SubSeq(s, 1, Len(s) - 1) ELSE s

\* '.' matches every character of s
AllDots(s) == \A i \in 1..Len(s) : s[i] # "\n"

---------------------------------------------------------------------------
(* Parser *)

A_COMMAND == 0
C_COMMAND == 1
L_COMMAND == 2
U_COMMAND == 3

COMP ==
  {<<"0">>, <<"1">>, <<"-","1">>, <<"D">>, <<"A">>,
   <<"!","D">>, <<"!","A">>, <<"-","D">>, <<"-","A">>, <<"D","+","1">>,
   <<"A","+","1">>, <<"D","-","1">>, <<"A","-","1">>, <<"D","+","A">>, <<"D","-","A">>,
   <<"A","-","D">>, <<"D","&","A">>, <<"D","|","A">>, <<"M">>, <<"!","M">>,
   <<"-","M">>, <<"M","+","1">>, <<"M","-","1">>, <<"D","+","M">>, <<"D","-","M">>,
   <<"M","-","D">>, <<"D","&","M">>, <<"D","|","M">>}

JUMP ==
  {<<"J","G","T">>, <<"J","E","Q">>, <<"J","G","E">>, <<"J","L","T">>,
   <<"J","N","E">>, <<"J","L","E">>, <<"J","M","P">>}

DEST ==
  {<<"M">>, <<"D">>, <<"M","D">>, <<"A">>, <<"A","M">>, <<"A","D">>, <<"A","M","D">>}

\* re.sub('\/\/.*', '', line): every "//" and what follows it up to, not
\* including, the next newline is removed
RECURSIVE RemoveComments(_)
RemoveComments(s) ==
    IF \E i \in 1..Len(s) - 1 : s[i] = "/" /\ s[i + 1] = "/"
    THEN LET i == CHOOSE k \in 1..Len(s) - 1 :
                      /\ s[k] = "/" /\ s[k + 1] = "/"
                      /\ \A h \in 1..k - 1 : ~(s[h] = "/" /\ s[h + 1] = "/")
             nl == {k \in i..Len(s) : s[k] = "\n"}
             j == IF nl = {} THEN Len(s) + 1 ELSE CHOOSE k \in nl : \A h \in nl : k <= h
         IN SubSeq(s, 1, i - 1) \o RemoveComments(SubSeq(s, j, Len(s)))
    ELSE s

\* while re.match('\s+', line, re.S): line = re.sub('\s+', '', line)
\* re.match looks at the start of the line only: the whitespace is removed,
\* all of it, when the line begins with whitespace, and else none of it is
RemoveWhiteSpace(s) ==
    IF s # <<>> /\ s[1] \in WHITESPACE THEN Without(s, WHITESPACE) ELSE s

\* the body of advance's loop on one raw line
CleanLine(raw) == RemoveWhiteSpace(RemoveComments(raw))

\* advance() of a Parser that has read p lines of f: the lines are read until
\* one is not empty once cleaned. The result is what advance returns (ok),
\* the new _line and the new number of lines read.
RECURSIVE advance(_, _)
advance(f, p) ==
    IF p >= Len(f) THEN [ok |-> FALSE, line |-> <<>>, pos |-> Len(f)]
    ELSE LET l == CleanLine(f[p + 1])
         IN IF l # <<>> THEN [ok |-> TRUE, line |-> l, pos |-> p + 1]
            ELSE advance(f, p + 1)

\* re.match(r'^@.+$', line)
MatchA(l) == LET b == Body(l) IN Len(b) >= 2 /\ b[1] = "@" /\ AllDots(b)

\* re.match('^(?:(?:DEST)=(?:COMP))$|^(?:(?:COMP);(?:JUMP))$', line)
MatchC(l) ==
    LET b == Body(l)
    IN \/ \E d \in DEST, c \in COMP : b = d \o <<"=">> \o c
       \/ \E c \in COMP, j \in JUMP : b = c \o <<";">> \o j

\* re.match(r'^\(.+\)$', line)
MatchL(l) ==
    LET b == Body(l)
    IN Len(b) >= 3 /\ b[1] = "(" /\ Last(b) = ")" /\ AllDots(b)

commandType(l) ==
    IF MatchA(l) THEN A_COMMAND
    ELSE IF MatchC(l) THEN C_COMMAND
    ELSE IF MatchL(l) THEN L_COMMAND
    ELSE U_COMMAND

symbol(l) ==
    IF MatchA(l) THEN SubSeq(Body(l), 2, Len(Body(l)))
    ELSE IF MatchL(l) THEN SubSeq(Body(l), 2, Len(Body(l)) - 1)
    ELSE None

\* re.match('^(DEST)=', line): the alternatives are told apart by the '='
\* that has to follow, so at most one of them matches
dest(l) ==
    IF \E d \in DEST : IsPrefix(d \o <<"=">>, l)
    THEN CHOOSE d \in DEST : IsPrefix(d \o <<"=">>, l)
    ELSE None

\* m1 = re.match('^(COMP);', line), m2 = re.search('=(COMP)$', line); m1 is
\* looked at first; re.search returns the leftmost match, the longest suffix
comp(l) ==
    LET m1 == {c \in COMP : IsPrefix(c \o <<";">>, l)}
        m2 == {c \in COMP : IsSuffix(<<"=">> \o c, Body(l))}
    IN IF m1 # {} THEN CHOOSE c \in m1 : TRUE
       ELSE IF m2 # {} THEN CHOOSE c \in m2 : \A e \in m2 : Len(e) <= Len(c)
       ELSE None

\* re.search('(JUMP)$', line)
jump(l) ==
    IF \E j \in JUMP : IsSuffix(j, Body(l))
    THEN CHOOSE j \in JUMP : IsSuffix(j, Body(l))
    ELSE None

---------------------------------------------------------------------------
(* Code *)

CodeDest(string) ==
    CASE string = None               -> <<"0","0","0">>
      [] string = <<"M">>            -> <<"0","0","1">>
      [] string = <<"D">>            -> <<"0","1","0">>
      [] string = <<"M","D">>        -> <<"0","1","1">>
      [] string = <<"A">>            -> <<"1","0","0">>
      [] string = <<"A","M">>        -> <<"1","0","1">>
      [] string = <<"A","D">>        -> <<"1","1","0">>
      [] string = <<"A","M","D">>    -> <<"1","1","1">>
      [] OTHER                       -> None

CodeComp(string) ==
    CASE string = <<"0">>            -> <<"0","1","0","1","0","1","0">>
      [] string = <<"1">>            -> <<"0","1","1","1","1","1","1">>
      [] string = <<"-","1">>        -> <<"0","1","1","1","0","1","0">>
      [] string = <<"D">>            -> <<"0","0","0","1","1","0","0">>
      [] string = <<"A">>            -> <<"0","1","1","0","0","0","0">>
      [] string = <<"!","D">>        -> <<"0","0","0","1","1","0","1">>
      [] string = <<"!","A">>        -> <<"0","1","1","0","0","0","1">>
      [] string = <<"-","D">>        -> <<"0","0","0","1","1","1","1">>
      [] string = <<"-","A">>        -> <<"0","1","1","0","0","1","1">>
      [] string = <<"D","+","1">>    -> <<"0","0","1","1","1","1","1">>
      [] string = <<"A","+","1">>    -> <<"0","1","1","0","1","1","1">>
      [] string = <<"D","-","1">>    -> <<"0","0","0","1","1","1","0">>
      [] string = <<"A","-","1">>    -> <<"0","1","1","0","0","1","0">>
      [] string = <<"D","+","A">>    -> <<"0","0","0","0","0","1","0">>
      [] string = <<"D","-","A">>    -> <<"0","0","1","0","0","1","1">>
      [] string = <<"A","-","D">>    -> <<"0","0","0","0","1","1","1">>
      [] string = <<"D","&","A">>    -> <<"0","0","0","0","0","0","0">>
      [] string = <<"D","|","A">>    -> <<"0","0","1","0","1","0","1">>
      [] string = <<"M">>            -> <<"1","1","1","0","0","0","0">>
      [] string = <<"!","M">>        -> <<"1","1","1","0","0","0","1">>
      [] string = <<"-","M">>        -> <<"1","1","1","0","0","1","1">>
      [] string = <<"M","+","1">>    -> <<"1","1","1","0","1","1","1">>
      [] string = <<"M","-","1">>    -> <<"1","1","1","0","0","1","0">>
      [] string = <<"D","+","M">>    -> <<"1","0","0","0","0","1","0">>
      [] string = <<"D","-","M">>    -> <<"1","0","1","0","0","1","1">>
      [] string = <<"M","-","D">>    -> <<"1","0","0","0","1","1","1">>
      [] string = <<"D","&","M">>    -> <<"1","0","0","0","0","0","0">>
      [] string = <<"D","|","M">>    -> <<"1","0","1","0","1","0","1">>
      [] OTHER                       -> None

CodeJump(string) ==
    CASE string = None               -> <<"0","0","0">>
      [] string = <<"J","G","T">>    -> <<"0","0","1">>
      [] string = <<"J","E","Q">>    -> <<"0","1","0">>
      [] string = <<"J","G","E">>    -> <<"0","1","1">>
      [] string = <<"J","L","T">>    -> <<"1","0","0">>
      [] string = <<"J","N","E">>    -> <<"1","0","1">>
      [] string = <<"J","L","E">>    -> <<"1","1","0">>
      [] string = <<"J","M","P">>    -> <<"1","1","1">>
      [] OTHER                       -> None

---------------------------------------------------------------------------
(* SymbolTable *)

DigitChars == <<"0", "1", "2", "3", "4", "5", "6", "7", "8", "9">>

\* str(n) of an integer n >= 0
RECURSIVE str(_)
str(n) == IF n < 10 THEN <<DigitChars[n + 1]>> ELSE str(n \div 10) \o <<DigitChars[(n % 10) + 1]>>

addEntry(t, sym, address) ==
    [x \in DOMAIN t \cup {sym} |-> IF x = sym THEN address ELSE t[x]]

contains(t, sym) == sym \in DOMAIN t

getAddress(t, sym) == t[sym]

\* the literal the constructor starts from
PredefinedLiteral ==
    [x \in {<<"S","P">>, <<"L","C","L">>, <<"A","R","G">>, <<"T","H","I","S">>,
            <<"T","H","A","T">>, <<"S","C","R","E","E","N">>, <<"K","B","D">>} |->
        CASE x = <<"S","P">>                 -> 0
          [] x = <<"L","C","L">>             -> 1
          [] x = <<"A","R","G">>             -> 2
          [] x = <<"T","H","I","S">>         -> 3
          [] x = <<"T","H","A","T">>         -> 4
          [] x = <<"S","C","R","E","E","N">> -> 16384
          [] x = <<"K","B","D">>             -> 24576]

\* for i in range(16): self._table['R'+str(i)] = i, from entry i on
RECURSIVE AddRegisters(_, _)
AddRegisters(t, i) ==
    IF i >= 16 THEN t ELSE AddRegisters(addEntry(t, <<"R">> \o str(i), i), i + 1)

\* SymbolTable()
SymbolTableInit == AddRegisters(PredefinedLiteral, 0)

---------------------------------------------------------------------------
(* dec2bin *)

\* s.strip()
RECURSIVE Strip(_)
Strip(s) ==
    IF s = <<>> THEN s
    ELSE IF s[1] \in WHITESPACE THEN Strip(Tail(s))
    ELSE IF Last(s) \in WHITESPACE THEN Strip(SubSeq(s, 1, Len(s) - 1))
    ELSE s

\* int(s) of a string does not raise ValueError: surrounding whitespace is
\* ignored and decimal digits are read (signs and underscores, which int()
\* reads too, are not among the characters of the model's literals)
IntOk(s) == Strip(s) # <<>> /\ \A i \in 1..Len(Strip(s)) : Strip(s)[i] \in DIGIT

DigitValue(c) == CHOOSE d \in 0..9 : DigitChars[d + 1] = c

RECURSIVE DecimalValue(_)
DecimalValue(s) ==
    IF s = <<>> THEN 0 ELSE 10 * DecimalValue(SubSeq(s, 1, Len(s) - 1)) + DigitValue(Last(s))

\* int(s) of a string for which IntOk holds
int(s) == DecimalValue(Strip(s))

\* bin(n)[2:] of an integer n >= 0: its binary digits, "0" for 0
RECURSIVE BinDigits(_)
BinDigits(n) ==
    IF n < 2 THEN <<DigitChars[n + 1]>> ELSE BinDigits(n \div 2) \o <<DigitChars[(n % 2) + 1]>>

Zeros(k) == [i \in 1..k |-> "0"]

\* dec2bin without the cut to 15 digits
dec2binAllDigits(n) ==
    IF n < 0 THEN None
    ELSE Zeros(15 - Len(BinDigits(n))) \o BinDigits(n)

\* dec2bin of an integer. re.search('^0b[01]*?([01]{,15}$)', bin(n)): the lazy
\* [01]*? takes as few digits as it can, so group 1 is the last 15 digits, or
\* all of them when there are fewer; bin() of a negative number starts with
\* '-' and does not match
dec2bin(n) ==
    IF n < 0 THEN None
    ELSE LET digits == BinDigits(n)
             k == IF Len(digits) > 15 THEN 15 ELSE Len(digits)
             group1 == SubSeq(digits, Len(digits) - k + 1, Len(digits))
             preprend == 15 - Len(group1)
         IN Zeros(preprend) \o group1

---------------------------------------------------------------------------
(* The input files *)

\* the longest file built from SourceLines
MaxLines == 2

\* raw lines as readline() returns them, each with its newline
SourceLines ==
    {<<"@","i","\n">>,
     <<"@","i"," ","/","/"," ","c","\n">>,           \* @i // c
     <<"@","j","\n">>,
     <<"@","L","\n">>,
     <<"@","S","P","\n">>,
     <<"@","5","\n">>,
     <<"@","3","2","7","6","7","\n">>,
     <<"@","4","0","0","0","0","\n">>,
     <<"@","5","x","\n">>,
     <<"(","L",")","\n">>,
     <<"(","L",")"," ","/","/"," ","c","\n">>,       \* (L) // c
     <<"(","S","P",")","\n">>,
     <<"D","=","M","\n">>,
     <<"\t","D","=","M","\n">>,                      \* a tab, then D=M
     <<"D"," ","="," ","M","\n">>,                   \* D = M
     <<"D","=","M"," ","/","/"," ","c","\n">>,       \* D=M // c
     <<"D",";","J","G","T","\n">>,
     <<"D","=","M",";","J","G","T","\n">>,
     <<"f","o","o","\n">>,
     <<"\n">>,
     <<"/","/"," ","c","\n">>}                       \* // c

\* the files of at most MaxLines lines of SourceLines
SourceFiles == UNION {[1..n -> SourceLines] : n \in 0..MaxLines}

\* the same file when its last line has no newline
NoFinalNewline(f) ==
    IF f # <<>> /\ Len(Last(f)) > 1 THEN [f EXCEPT ![Len(f)] = Body(Last(f))] ELSE f

NL == <<"\n">>

\* the files of one C-instruction, for every choice of the fields and each
\* of the shapes dest=comp, comp;jump and dest=comp;jump
InstructionFiles ==
    {<<d \o <<"=">> \o c \o NL>> : d \in DEST, c \in COMP}
        \cup {<<c \o <<";">> \o j \o NL>> : c \in COMP, j \in JUMP}
        \cup {<<d \o <<"=">> \o c \o <<";">> \o j \o NL>> : d \in DEST, c \in COMP, j \in JUMP}

\* the program of the second scenario of the specification
Scenario2 ==
    <<<<"@","i","\n">>,
      <<"M","=","1","\n">>,
      <<"(","L","O","O","P",")","\n">>,
      <<"@","i","\n">>,
      <<"D","=","M","\n">>,
      <<"@","1","0","0","\n">>,
      <<"D","=","D","-","A","\n">>,
      <<"@","E","N","D","\n">>,
      <<"D",";","J","G","T","\n">>,
      <<"@","i","\n">>,
      <<"M","=","M","+","1","\n">>,
      <<"@","L","O","O","P","\n">>,
      <<"0",";","J","M","P","\n">>,
      <<"(","E","N","D",")","\n">>,
      <<"@","E","N","D","\n">>,
      <<"0",";","J","M","P","\n">>>>

Files ==
    SourceFiles \cup {NoFinalNewline(f) : f \in SourceFiles}
        \cup InstructionFiles \cup {Scenario2}

---------------------------------------------------------------------------
(* main *)

\* the VM translator is not running
VMIdle ==
    /\ run = [argv1 |-> <<>>, isdir |-> FALSE, listdir |-> <<>>, files |-> <<>>]
    /\ vpc = "off"
    /\ fileNo = 0
    /\ vpos = 0
    /\ codeWriter = [fileName |-> None, functionName |-> None, retAddrCnt |-> -1, cnt |-> -1]
    /\ asm = <<>>
    /\ log = <<>>

\* the Hack machine is not running
HackIdle ==
    /\ rom = <<>>
    /\ ip = 0
    /\ prev = -1
    /\ regA = 0
    /\ regD = 0
    /\ ram = <<>>
    /\ scenario = <<>>

\* the assembler is not running
AsmIdle ==
    /\ file = <<>>
    /\ pc = "off"
    /\ pos = 0
    /\ line = <<>>
    /\ romAddr = 0
    /\ ramAddr = 0
    /\ table = SymbolTableInit
    /\ hack = <<>>
    /\ written = <<>>

\* main before its first loop: romAddr = 0, a Parser on the file, a new
\* SymbolTable. ramAddr and the .hack file do not exist yet.
Init ==
    /\ file \in Files
    /\ pc = "first"
    /\ pos = 0
    /\ line = <<>>
    /\ romAddr = 0
    /\ ramAddr = 0
    /\ table = SymbolTableInit
    /\ hack = <<>>
    /\ written = <<>>
    /\ VMIdle
    /\ HackIdle

\* a first pass that counts a label declaration as an instruction
FirstPassLabelCounted ==
    /\ pc = "first"
    /\ LET a == advance(file, pos)
       IN /\ a.ok
          /\ commandType(a.line) = L_COMMAND
          /\ line' = a.line
          /\ pos' = a.pos
          /\ table' = addEntry(table, symbol(a.line), romAddr)
    /\ romAddr' = romAddr + 1
    /\ UNCHANGED <<file, pc, ramAddr, hack, written>>
    /\ UNCHANGED <<vmvars, hackvars>>

\* first pass, an L_COMMAND: the label is bound to romAddr
FirstPassLabel ==
    /\ pc = "first"
    /\ LET a == advance(file, pos)
       IN /\ a.ok
          /\ commandType(a.line) = L_COMMAND
          /\ line' = a.line
          /\ pos' = a.pos
          /\ table' = addEntry(table, symbol(a.line), romAddr)
    /\ UNCHANGED <<file, pc, romAddr, ramAddr, hack, written>>
    /\ UNCHANGED <<vmvars, hackvars>>

\* first pass, any other command: romAddr advances
FirstPassCommand ==
    /\ pc = "first"
    /\ LET a == advance(file, pos)
       IN /\ a.ok
          /\ commandType(a.line) # L_COMMAND
          /\ line' = a.line
          /\ pos' = a.pos
    /\ romAddr' = romAddr + 1
    /\ UNCHANGED <<file, pc, ramAddr, table, hack, written>>
    /\ UNCHANGED <<vmvars, hackvars>>

\* the end of the file in the first pass: ramAddr = 16, the .hack file is
\* opened for writing and a second Parser starts from the top of the file
FirstPassEnd ==
    /\ pc = "first"
    /\ ~advance(file, pos).ok
    /\ pc' = "second"
    /\ pos' = 0
    /\ line' = <<>>
    /\ ramAddr' = 16
    /\ hack' = <<>>
    /\ UNCHANGED <<file, romAddr, table, written>>
    /\ UNCHANGED <<vmvars, hackvars>>

\* second pass, a C_COMMAND: '111' + comp + dest + jump is written; the
\* concatenation raises TypeError when a table returns None
SecondPassC ==
    /\ pc = "second"
    /\ LET a == advance(file, pos)
           c == CodeComp(comp(a.line))
           d == CodeDest(dest(a.line))
           j == CodeJump(jump(a.line))
       IN /\ a.ok
          /\ commandType(a.line) = C_COMMAND
          /\ line' = a.line
          /\ pos' = a.pos
          /\ IF c = None \/ d = None \/ j = None
             THEN /\ pc' = "error"
                  /\ UNCHANGED <<hack, written>>
             ELSE /\ pc' = pc
                  /\ hack' = Append(hack, <<"1","1","1">> \o c \o d \o j)
                  /\ written' = Append(written, [src |-> a.pos, address |-> -1])
    /\ UNCHANGED <<file, romAddr, ramAddr, table>>
    /\ UNCHANGED <<vmvars, hackvars>>

\* second pass, an A_COMMAND: a symbol that starts with a non-digit
\* (re.match(r'\D+', symbol)) is looked up in the table and, when it is not
\* there, bound to ramAddr; any other symbol is left to int() in dec2bin,
\* which raises ValueError on what is not a number
SecondPassA ==
    /\ pc = "second"
    /\ LET a == advance(file, pos)
           sym == symbol(a.line)
       IN /\ a.ok
          /\ commandType(a.line) = A_COMMAND
          /\ line' = a.line
          /\ pos' = a.pos
          /\ IF sym[1] \notin DIGIT
             THEN IF contains(table, sym)
                  THEN /\ hack' = Append(hack, <<"0">> \o dec2bin(getAddress(table, sym)))
                       /\ written' = Append(written, [src |-> a.pos, address |-> getAddress(table, sym)])
                       /\ UNCHANGED <<pc, table, ramAddr>>
                  ELSE /\ table' = addEntry(table, sym, ramAddr)
                       /\ hack' = Append(hack, <<"0">> \o dec2bin(ramAddr))
                       /\ written' = Append(written, [src |-> a.pos, address |-> ramAddr])
                       /\ ramAddr' = ramAddr + 1
                       /\ pc' = pc
             ELSE IF IntOk(sym)
                  THEN /\ hack' = Append(hack, <<"0">> \o dec2bin(int(sym)))
                       /\ written' = Append(written, [src |-> a.pos, address |-> int(sym)])
                       /\ UNCHANGED <<pc, table, ramAddr>>
                  ELSE /\ pc' = "error"
                       /\ UNCHANGED <<hack, written, table, ramAddr>>
    /\ UNCHANGED <<file, romAddr>>
    /\ UNCHANGED <<vmvars, hackvars>>

\* second pass, an L_COMMAND or a U_COMMAND: hackstr stays empty and
\* nothing is written
SecondPassOther ==
    /\ pc = "second"
    /\ LET a == advance(file, pos)
       IN /\ a.ok
          /\ commandType(a.line) \notin {C_COMMAND, A_COMMAND}
          /\ line' = a.line
          /\ pos' = a.pos
    /\ UNCHANGED <<file, pc, romAddr, ramAddr, table, hack, written>>
    /\ UNCHANGED <<vmvars, hackvars>>

\* the end of the file in the second pass: the .hack file is closed
SecondPassEnd ==
    /\ pc = "second"
    /\ ~advance(file, pos).ok
    /\ pc' = "done"
    /\ pos' = Len(file)
    /\ line' = <<>>
    /\ UNCHANGED <<file, romAddr, ramAddr, table, hack, written>>
    /\ UNCHANGED <<vmvars, hackvars>>

Next ==
    \/ FirstPassLabel
    \/ FirstPassCommand
    \/ FirstPassEnd
    \/ SecondPassC
    \/ SecondPassA
    \/ SecondPassOther
    \/ SecondPassEnd

Spec == Init /\ [][Next]_vars

---------------------------------------------------------------------------
(* What the specification says of a source line, for the statements below *)

\* the cleaned line of the specification (4.1): the comment removed, then all
\* the whitespace
SpecClean(raw) == Without(RemoveComments(raw), WHITESPACE)

\* the three shapes of the C-instruction grammar (4.2)
CInstructions ==
    {d \o <<"=">> \o c : d \in DEST, c \in COMP}
        \cup {c \o <<";">> \o j : c \in COMP, j \in JUMP}
        \cup {d \o <<"=">> \o c \o <<";">> \o j : d \in DEST, c \in COMP, j \in JUMP}

SpecIsA(c) == Len(c) >= 2 /\ c[1] = "@"

SpecIsL(c) == ~SpecIsA(c) /\ Len(c) >= 3 /\ c[1] = "(" /\ Last(c) = ")"

SpecIsC(c) == c \in CInstructions

\* the name of an A-instruction or of a label declaration
SpecSymbol(c) == IF SpecIsA(c) THEN SubSeq(c, 2, Len(c)) ELSE SubSeq(c, 2, Len(c) - 1)

\* line i of f is an A- or a C-instruction
IsInstruction(f, i) == SpecIsA(SpecClean(f[i])) \/ SpecIsC(SpecClean(f[i]))

\* the number of A- and C-instruction lines of f before line i
InstructionsBefore(f, i) == Cardinality({h \in 1..i - 1 : IsInstruction(f, h)})

\* the lines of f that declare the label n
Declarations(f, n) ==
    {i \in 1..Len(f) : SpecIsL(SpecClean(f[i])) /\ SpecSymbol(SpecClean(f[i])) = n}

Labels(f) == {SpecSymbol(SpecClean(f[i])) : i \in {h \in 1..Len(f) : SpecIsL(SpecClean(f[h]))}}

\* line i of f is an A-instruction with a symbolic name (not a number)
IsSymbolic(f, i) ==
    /\ SpecIsA(SpecClean(f[i]))
    /\ \E h \in 2..Len(SpecClean(f[i])) : SpecClean(f[i])[h] \notin DIGIT

\* the names of the variables of f, in the order of their first appearance:
\* the symbolic names that are neither predefined nor declared as a label
RECURSIVE VariablesFrom(_, _, _)
VariablesFrom(f, i, seen) ==
    IF i > Len(f) THEN seen
    ELSE LET n == SpecSymbol(SpecClean(f[i]))
         IN IF /\ IsSymbolic(f, i)
               /\ n \notin DOMAIN SymbolTableInit
               /\ n \notin Labels(f)
               /\ \A k \in 1..Len(seen) : seen[k] # n
            THEN VariablesFrom(f, i + 1, Append(seen, n))
            ELSE VariablesFrom(f, i + 1, seen)

Variables(f) == VariablesFrom(f, 1, <<>>)

\* a raw line written without blanks or comment: an instruction or a label
\* declaration and its newline, or else a blank or comment-only line
IsPlain(raw) ==
    \/ SpecClean(raw) = <<>>
    \/ /\ raw = SpecClean(raw) \o NL
       /\ SpecIsA(SpecClean(raw)) \/ SpecIsL(SpecClean(raw)) \/ SpecIsC(SpecClean(raw))

\* the 15-bit binary numeral of m, 0 <= m < 2^15, most significant bit first
Bits15(m) == [i \in 1..15 |-> DigitChars[((m \div (2 ^ (15 - i))) % 2) + 1]]

---------------------------------------------------------------------------
(* The claims *)

\* C1: for a well-formed input (A-instructions, labels, C-instructions of the
\* shapes dest=comp, comp;jump and dest=comp;jump, blank and comment-only
\* lines), the second pass writes exactly one line per A- or C-instruction
\* line and none for the others, so at the end the output has as many lines
\* as the source has instruction lines.
C1_OneLinePerInstruction ==
    (pc = "done" /\ \A i \in 1..Len(file) : IsPlain(file[i]))
        => /\ Len(hack) = Cardinality({i \in 1..Len(file) : IsInstruction(file, i)})
           /\ \A i \in 1..Len(file) :
                  Cardinality({k \in 1..Len(written) : written[k].src = i})
                      = IF IsInstruction(file, i) THEN 1 ELSE 0

\* C2: after the first pass, every label declared in the input is bound to
\* the number of A- and C-instruction lines that precede its declaration
\* (for a label declared more than once, one of its declarations).
C2_LabelsBoundToNextInstruction ==
    pc # "first"
        => \A n \in Labels(file) :
               /\ contains(table, n)
               /\ \E i \in Declarations(file, n) :
                      getAddress(table, n) = InstructionsBefore(file, i)

\* C3: at the end of the second pass the k-th distinct symbolic name that is
\* neither predefined nor a label is bound to 16 + (k-1), and the allocation
\* counter has advanced by one per such name and not on a repeated name.
C3_VariablesFrom16 ==
    pc = "done"
        => LET v == Variables(file)
           IN /\ \A k \in 1..Len(v) : contains(table, v[k]) /\ getAddress(table, v[k]) = 16 + (k - 1)
              /\ ramAddr = 16 + Len(v)

\* C4: all the A-instructions of a run that reference the same symbolic name
\* emit the same word.
C4_SameNameSameAddress ==
    \A k1, k2 \in 1..Len(written) :
        (/\ IsSymbolic(file, written[k1].src)
         /\ IsSymbolic(file, written[k2].src)
         /\ SpecSymbol(SpecClean(file[written[k1].src])) = SpecSymbol(SpecClean(file[written[k2].src])))
            => hack[k1] = hack[k2]

\* C5: the classifier returns C_COMMAND for every current line of one of the
\* shapes dest=comp, comp;jump and dest=comp;jump over the allowed mnemonics.
C5_ClassifiesThreeShapes ==
    line \in CInstructions => commandType(line) = C_COMMAND

\* C6: a line that is neither an A-instruction, a label declaration nor a
\* C-instruction is fatal, so no run of a file with such a line completes.
C6_InvalidLineIsFatal ==
    pc = "done"
        => \A i \in 1..Len(file) :
               LET c == SpecClean(file[i])
               IN c = <<>> \/ SpecIsA(c) \/ SpecIsL(c) \/ SpecIsC(c)
                      \/ commandType(CleanLine(file[i])) # U_COMMAND

\* C7: the current line advance() yields is the raw line without its comment
\* and without any whitespace, the end of line included, whether or not the
\* raw line starts with whitespace.
C7_AdvanceRemovesAllWhitespace ==
    (pc \in {"first", "second"} /\ pos > 0 /\ line # <<>>) => line = SpecClean(file[pos])

\* C8: for every C-instruction over the allowed dest, comp and jump sets the
\* written word is '111', then the comp code, the dest code and the jump code
\* of the fields written in the line, absent fields as 000. The tables of
\* Code are those of the specification.
C8_CInstructionWord ==
    (pc = "done" /\ Len(file) = 1)
        => /\ \A d \in DEST, c \in COMP :
                  file[1] = d \o <<"=">> \o c \o NL
                      => hack = <<<<"1","1","1">> \o CodeComp(c) \o CodeDest(d) \o <<"0","0","0">>>>
           /\ \A c \in COMP, j \in JUMP :
                  file[1] = c \o <<";">> \o j \o NL
                      => hack = <<<<"1","1","1">> \o CodeComp(c) \o <<"0","0","0">> \o CodeJump(j)>>
           /\ \A d \in DEST, c \in COMP, j \in JUMP :
                  file[1] = d \o <<"=">> \o c \o <<";">> \o j \o NL
                      => hack = <<<<"1","1","1">> \o CodeComp(c) \o CodeDest(d) \o CodeJump(j)>>

\* C9: for every A-instruction with resolved address n >= 0 the written word
\* is '0' followed by the 15-bit numeral of n mod 2^15, 16 characters in all.
C9_AInstructionWord ==
    \A k \in 1..Len(written) :
        written[k].address >= 0
            => /\ hack[k] = <<"0">> \o Bits15(written[k].address % (2 ^ 15))
               /\ Len(hack[k]) = 16

\* an address of 2^15 or more has been written, and 32767 has
C9_Witness ==
    /\ \E k \in 1..Len(written) : written[k].address >= 2 ^ 15
    /\ \E k \in 1..Len(written) :
           written[k].address = 32767 /\ hack[k] = <<"0">> \o [i \in 1..15 |-> "1"]

\* C10: at the end of a run the predefined symbols have their initial values.
C10_PredefinedUnchanged ==
    pc = "done"
        => \A n \in DOMAIN SymbolTableInit :
               contains(table, n) /\ getAddress(table, n) = SymbolTableInit[n]

\* the bindings of the names i, LOOP and END at the end of a run
Scenario2Bindings(i, loop, end) ==
    /\ contains(table, <<"i">>) /\ getAddress(table, <<"i">>) = i
    /\ contains(table, <<"L","O","O","P">>)
    /\ getAddress(table, <<"L","O","O","P">>) = loop
    /\ contains(table, <<"E","N","D">>) /\ getAddress(table, <<"E","N","D">>) = end

\* C11 as stated: the program of scenario 2 ends with i bound to 16, LOOP to
\* 2 and END to 18.
C11_Scenario2AsStated ==
    (file = Scenario2 /\ pc = "done") => Scenario2Bindings(16, 2, 18)

\* C11: the program of scenario 2 ends with i bound to 16, LOOP to 2 and END
\* to 12, the number of instructions that precede the declaration (END).
C11_Scenario2 ==
    (file = Scenario2 /\ pc = "done")
        => /\ Scenario2Bindings(16, 2, 12)
           /\ InstructionsBefore(Scenario2, 14) = 12

\* the program of scenario 2 has been assembled to its end
C11_Witness ==
    file = Scenario2 /\ pc = "done" /\ Len(hack) = 14

\* every symbolic A-instruction of f names a declared label or a predefined
\* symbol
NoVariableNamed(f) ==
    \A i \in 1..Len(f) :
        IsSymbolic(f, i)
            => SpecSymbol(SpecClean(f[i])) \in Labels(f) \cup DOMAIN SymbolTableInit

\* C12: when every symbolic A-instruction names a declared label or a
\* predefined symbol, the run ends with ramAddr = 16 and a table that holds
\* the predefined symbols and the labels and nothing else.
C12_NoVariableAllocated ==
    (pc = "done" /\ NoVariableNamed(file))
        => /\ ramAddr = 16
           /\ DOMAIN table = DOMAIN SymbolTableInit \cup Labels(file)

---------------------------------------------------------------------------
(* VMtranslator: Parser *)

C_ARITHMETIC == 0
C_PUSH == 1
C_POP == 2
C_LABEL == 3
C_GOTO == 4
C_IF == 5
C_FUNCTION == 6
C_RETURN == 7
C_CALL == 8
C_UNKNOWN == 9

\* the length of the run of whitespace s starts with
RECURSIVE WhiteRun(_)
WhiteRun(s) == IF s # <<>> /\ s[1] \in WHITESPACE THEN 1 + WhiteRun(Tail(s)) ELSE 0

\* re.sub(r'\s*\/\/.*', '', s): the leftmost match starts at the whitespace
\* that precedes the first '//' and runs to the end of the line
RECURSIVE VMRemoveComments(_)
VMRemoveComments(s) ==
    IF \E i \in 1..Len(s) - 1 : s[i] = "/" /\ s[i + 1] = "/"
    THEN LET i == CHOOSE k \in 1..Len(s) - 1 :
                      /\ s[k] = "/" /\ s[k + 1] = "/"
                      /\ \A h \in 1..k - 1 : ~(s[h] = "/" /\ s[h + 1] = "/")
             b == CHOOSE k \in 1..i :
                      /\ \A h \in k..i - 1 : s[h] \in WHITESPACE
                      /\ k = 1 \/ s[k - 1] \notin WHITESPACE
             nl == {k \in i..Len(s) : s[k] = "\n"}
             j == IF nl = {} THEN Len(s) + 1 ELSE CHOOSE k \in nl : \A h \in nl : k <= h
         IN SubSeq(s, 1, b - 1) \o VMRemoveComments(SubSeq(s, j, Len(s)))
    ELSE s

\* re.sub('\s{2,}', ' ', s)
RECURSIVE CollapseWhiteSpace(_)
CollapseWhiteSpace(s) ==
    IF s = <<>> THEN s
    ELSE IF WhiteRun(s) >= 2
         THEN <<" ">> \o CollapseWhiteSpace(SubSeq(s, WhiteRun(s) + 1, Len(s)))
         ELSE <<s[1]>> \o CollapseWhiteSpace(Tail(s))

\* re.split(r'\s+', s)
RECURSIVE Split(_)
Split(s) ==
    IF \E i \in 1..Len(s) : s[i] \in WHITESPACE
    THEN LET i == CHOOSE k \in 1..Len(s) :
                      s[k] \in WHITESPACE /\ \A h \in 1..k - 1 : s[h] \notin WHITESPACE
             rest == SubSeq(s, i, Len(s))
         IN <<SubSeq(s, 1, i - 1)>> \o Split(SubSeq(rest, WhiteRun(rest) + 1, Len(rest)))
    ELSE <<s>>

\* what the loop of Parser.advance makes of one raw line: '' when the line
\* is skipped
VMCleanLine(raw) == CollapseWhiteSpace(VMRemoveComments(Strip(raw)))

\* Parser.advance from a Parser that has read p lines of f: ok is what it
\* returns, line the new current command, pos the lines read
RECURSIVE VMadvance(_, _)
VMadvance(f, p) ==
    IF p >= Len(f) THEN [ok |-> FALSE, line |-> <<>>, pos |-> Len(f)]
    ELSE IF VMRemoveComments(Strip(f[p + 1])) # <<>>
         THEN [ok |-> TRUE, line |-> VMCleanLine(f[p + 1]), pos |-> p + 1]
         ELSE VMadvance(f, p + 1)

\* some word of a set is a prefix of s: re.match of an alternation of words
MatchWord(words, s) == \E w \in words : IsPrefix(w, s)

ARITHMETIC ==
    {<<"a", "d", "d">>, <<"s", "u", "b">>, <<"n", "e", "g">>, <<"e", "q">>, <<"g", "t">>, <<"l", "t">>, <<"a", "n", "d">>, <<"o", "r">>, <<"n", "o", "t">>}

\* the value ret of Parser.commandType before its test of C_UNKNOWN
VMcommandType(l) ==
    LET elements == Split(l)
    IN IF Len(elements) = 1
       THEN IF IsPrefix(<<"r", "e", "t", "u", "r", "n">>, elements[1]) THEN C_RETURN
            ELSE IF MatchWord(ARITHMETIC, elements[1]) THEN C_ARITHMETIC
            ELSE C_UNKNOWN
       ELSE IF Len(elements) = 2
       THEN IF IsPrefix(<<"l", "a", "b", "e", "l">>, elements[1]) THEN C_LABEL
            ELSE IF IsPrefix(<<"g", "o", "t", "o">>, elements[1]) THEN C_GOTO
            ELSE IF IsPrefix(<<"i", "f", "-", "g", "o", "t", "o">>, elements[1]) THEN C_IF
            ELSE C_UNKNOWN
       ELSE IF Len(elements) = 3
       THEN IF IsPrefix(<<"f", "u", "n", "c", "t", "i", "o", "n">>, elements[1]) THEN C_FUNCTION
            ELSE IF IsPrefix(<<"c", "a", "l", "l">>, elements[1]) THEN C_CALL
            ELSE IF IsPrefix(<<"p", "u", "s", "h">>, elements[1]) THEN C_PUSH
            ELSE IF IsPrefix(<<"p", "o", "p">>, elements[1]) THEN C_POP
            ELSE C_UNKNOWN
       ELSE C_UNKNOWN

arg1(l) == IF VMcommandType(l) = C_ARITHMETIC THEN Split(l)[1] ELSE Split(l)[2]

arg2(l) == Split(l)[3]

---------------------------------------------------------------------------
(* VMtranslator: CodeWriter. The text written to the .asm file is modelled *)
(* as the sequence of its lines. A CodeWriter is the record of its         *)
(* attributes; a method is an operator that gives the new CodeWriter (cw)  *)
(* and the lines it writes (text).                                         *)

POINTER_BASE_ADDR == 3
TEMP_BASE_ADDR == 5

\* the value of the attribute __retAddrCnt or __cnt of a CodeWriter that does
\* not have the attribute yet (reading it raises AttributeError)
NoAttribute == -1

\* os.path.basename
basename(p) ==
    IF \E i \in 1..Len(p) : p[i] = "/"
    THEN LET i == CHOOSE k \in 1..Len(p) :
                      p[k] = "/" /\ \A h \in k + 1..Len(p) : p[h] # "/"
         IN SubSeq(p, i + 1, Len(p))
    ELSE p

\* str.rstrip(chars): the trailing characters that belong to chars are removed
RECURSIVE rstrip(_, _)
rstrip(s, chars) ==
    IF s # <<>> /\ Last(s) \in chars THEN rstrip(SubSeq(s, 1, Len(s) - 1), chars) ELSE s

\* a file name without its extension and nothing else removed
WithoutExtension(s, ext) == IF IsSuffix(ext, s) THEN SubSeq(s, 1, Len(s) - Len(ext)) ELSE s

LowerCase == <<"a", "b", "c", "d", "e", "f", "g", "h", "i", "j", "k", "l", "m", "n", "o", "p", "q", "r", "s", "t", "u", "v", "w", "x", "y", "z">>

UpperCase == <<"A", "B", "C", "D", "E", "F", "G", "H", "I", "J", "K", "L", "M", "N", "O", "P", "Q", "R", "S", "T", "U", "V", "W", "X", "Y", "Z">>

\* str.upper
upper(s) ==
    [i \in 1..Len(s) |->
        IF \E k \in 1..26 : LowerCase[k] = s[i]
        THEN UpperCase[CHOOSE k \in 1..26 : LowerCase[k] = s[i]]
        ELSE s[i]]

\* CodeWriter(fileName)
CodeWriterInit(fileName) ==
    [fileName |-> rstrip(basename(fileName), {".", "a", "s", "m"}),
     functionName |-> fileName,
     retAddrCnt |-> NoAttribute,
     cnt |-> NoAttribute]

\* a setFileName that leaves __functionName alone
setFileNameOnly(cw, fileName) ==
    [cw EXCEPT !.fileName = rstrip(basename(fileName), {".", "v", "m"})]

setFileName(cw, fileName) ==
    [cw EXCEPT !.fileName = rstrip(basename(fileName), {".", "v", "m"}),
               !.functionName = rstrip(basename(fileName), {".", "v", "m"})]

\* n times the lines of a block
Repeat(block, n) == [i \in 1..n * Len(block) |-> block[((i - 1) % Len(block)) + 1]]

incSP == <<<<"@", "S", "P">>, <<"M", "=", "M", "+", "1">>>>

\* a __preArithCommandCode that pops both operands into D
preArithCommandCodeTwice(isUnary) ==
    (IF ~isUnary THEN <<<<"@", "S", "P">>, <<"M", "=", "M", "-", "1">>, <<"A", "=", "M">>, <<"D", "=", "M">>>> ELSE <<>>)
        \o <<<<"@", "S", "P">>, <<"M", "=", "M", "-", "1">>, <<"A", "=", "M">>, <<"D", "=", "M">>>>

preArithCommandCode(isUnary) ==
    (IF ~isUnary THEN <<<<"@", "S", "P">>, <<"M", "=", "M", "-", "1">>, <<"A", "=", "M">>, <<"D", "=", "M">>>> ELSE <<>>)
        \o <<<<"@", "S", "P">>, <<"M", "=", "M", "-", "1">>, <<"A", "=", "M">>>>

lteqgt(cw, command) ==
    LET c == IF cw.cnt = NoAttribute THEN 0 ELSE cw.cnt
        label == upper(command) \o str(c)
    IN [cw |-> [cw EXCEPT !.cnt = c + 1],
        text |-> <<<<"D", "=", "M", "-", "D">>, <<"M", "=", "-", "1">>, <<"@">> \o label, <<"D", ";", "J">> \o upper(command),
                   <<"@", "S", "P">>, <<"A", "=", "M">>, <<"M", "=", "0">>, <<"(">> \o label \o <<")">>>>]

writeArithmetic(cw, command) ==
    LET isUnary == MatchWord({<<"n", "e", "g">>, <<"n", "o", "t">>}, command)
        head == <<<<"/", "/", " ">> \o command>> \o preArithCommandCode(isUnary)
        plain(l) == [cw |-> cw, text |-> head \o <<l>> \o incSP]
    IN IF IsPrefix(<<"a", "d", "d">>, command) THEN plain(<<"M", "=", "D", "+", "M">>)
       ELSE IF IsPrefix(<<"s", "u", "b">>, command) THEN plain(<<"M", "=", "M", "-", "D">>)
       ELSE IF IsPrefix(<<"n", "e", "g">>, command) THEN plain(<<"M", "=", "-", "M">>)
       ELSE IF IsPrefix(<<"a", "n", "d">>, command) THEN plain(<<"M", "=", "D", "&", "M">>)
       ELSE IF IsPrefix(<<"o", "r">>, command) THEN plain(<<"M", "=", "D", "|", "M">>)
       ELSE IF IsPrefix(<<"n", "o", "t">>, command) THEN plain(<<"M", "=", "!", "M">>)
       ELSE [cw |-> lteqgt(cw, command).cw,
             text |-> head \o lteqgt(cw, command).text \o incSP]

\* a __pushVal that pushes the address
pushValAddress(addr) == <<<<"@">> \o addr, <<"D", "=", "A">>, <<"@", "S", "P">>, <<"A", "=", "M">>, <<"M", "=", "D">>>> \o incSP

pushVal(addr) == <<<<"@">> \o addr, <<"D", "=", "M">>, <<"@", "S", "P">>, <<"A", "=", "M">>, <<"M", "=", "D">>>> \o incSP

offset(resVar, offsetVar, n) ==
    <<<<"@">> \o offsetVar, <<"D", "=", "M">>, <<"@">> \o str(n), <<"D", "=", "D", "-", "A">>, <<"A", "=", "D">>, <<"D", "=", "M">>, <<"@">> \o resVar, <<"M", "=", "D">>>>

\* a __baseaddr that takes THIS for the segment that
baseaddrThis(cw, segment, index) ==
    IF IsPrefix(<<"a", "r", "g", "u", "m", "e", "n", "t">>, segment) THEN <<<<"@", "A", "R", "G">>>>
    ELSE IF IsPrefix(<<"l", "o", "c", "a", "l">>, segment) THEN <<<<"@", "L", "C", "L">>>>
    ELSE IF IsPrefix(<<"s", "t", "a", "t", "i", "c">>, segment) THEN <<<<"@">> \o cw.fileName \o <<".">> \o str(index)>>
    ELSE IF IsPrefix(<<"c", "o", "n", "s", "t", "a", "n", "t">>, segment) THEN <<<<"@">> \o str(index), <<"D", "=", "A">>>>
    ELSE IF IsPrefix(<<"t", "h", "i", "s">>, segment) THEN <<<<"@", "T", "H", "I", "S">>>>
    ELSE IF IsPrefix(<<"t", "h", "a", "t">>, segment) THEN <<<<"@", "T", "H", "I", "S">>>>
    ELSE IF IsPrefix(<<"p", "o", "i", "n", "t", "e", "r">>, segment) THEN <<<<"@">> \o str(POINTER_BASE_ADDR + index)>>
    ELSE <<<<"@">> \o str(TEMP_BASE_ADDR + index)>>

baseaddr(cw, segment, index) ==
    IF IsPrefix(<<"a", "r", "g", "u", "m", "e", "n", "t">>, segment) THEN <<<<"@", "A", "R", "G">>>>
    ELSE IF IsPrefix(<<"l", "o", "c", "a", "l">>, segment) THEN <<<<"@", "L", "C", "L">>>>
    ELSE IF IsPrefix(<<"s", "t", "a", "t", "i", "c">>, segment) THEN <<<<"@">> \o cw.fileName \o <<".">> \o str(index)>>
    ELSE IF IsPrefix(<<"c", "o", "n", "s", "t", "a", "n", "t">>, segment) THEN <<<<"@">> \o str(index), <<"D", "=", "A">>>>
    ELSE IF IsPrefix(<<"t", "h", "i", "s">>, segment) THEN <<<<"@", "T", "H", "I", "S">>>>
    ELSE IF IsPrefix(<<"t", "h", "a", "t">>, segment) THEN <<<<"@", "T", "H", "A", "T">>>>
    ELSE IF IsPrefix(<<"p", "o", "i", "n", "t", "e", "r">>, segment) THEN <<<<"@">> \o str(POINTER_BASE_ADDR + index)>>
    ELSE <<<<"@">> \o str(TEMP_BASE_ADDR + index)>>

writePushPop(cw, command, segment, index) ==
    IF command = C_PUSH
    THEN <<<<"/", "/", " ", "p", "u", "s", "h", " ">> \o segment \o <<" ">> \o str(index)>>
         \o baseaddr(cw, segment, index)
         \o (IF ~MatchWord({<<"s", "t", "a", "t", "i", "c">>, <<"c", "o", "n", "s", "t", "a", "n", "t">>, <<"p", "o", "i", "n", "t", "e", "r">>, <<"t", "e", "m", "p">>}, segment)
             THEN IF index = 0 THEN <<<<"A", "=", "M">>>>
                  ELSE IF index = 1 THEN <<<<"A", "=", "M">>, <<"A", "=", "A", "+", "1">>>>
                  ELSE <<<<"D", "=", "M">>, <<"@">> \o str(index), <<"A", "=", "D", "+", "A">>>>
             ELSE <<>>)
         \o (IF ~IsPrefix(<<"c", "o", "n", "s", "t", "a", "n", "t">>, segment) THEN <<<<"D", "=", "M">>>> ELSE <<>>)
         \o <<<<"@", "S", "P">>, <<"A", "=", "M">>, <<"M", "=", "D">>>>
         \o incSP
    ELSE <<<<"/", "/", " ", "p", "o", "p", " ">> \o segment \o <<" ">> \o str(index)>>
         \o <<<<"@", "S", "P">>, <<"M", "=", "M", "-", "1">>>>
         \o (IF ~IsPrefix(<<"c", "o", "n", "s", "t", "a", "n", "t">>, segment)
             THEN <<<<"A", "=", "M">>, <<"D", "=", "M">>>>
                  \o baseaddr(cw, segment, index)
                  \o (IF ~MatchWord({<<"s", "t", "a", "t", "i", "c">>, <<"p", "o", "i", "n", "t", "e", "r">>, <<"t", "e", "m", "p">>}, segment)
                      THEN <<<<"A", "=", "M">>>> \o [i \in 1..index |-> <<"A", "=", "A", "+", "1">>]
                      ELSE <<>>)
                  \o <<<<"M", "=", "D">>>>
             ELSE <<>>)

writeLabel(cw, label) ==
    <<<<"/", "/", " ", "l", "a", "b", "e", "l", " ">> \o label, <<"(">> \o cw.functionName \o <<"$">> \o label \o <<")">>>>

writeIf(cw, label) ==
    <<<<"/", "/", " ", "i", "f", " ">> \o label, <<"@", "S", "P">>, <<"M", "=", "M", "-", "1">>, <<"A", "=", "M">>, <<"D", "=", "M">>,
      <<"@">> \o cw.functionName \o <<"$">> \o label, <<"D", ";", "J", "N", "E">>>>

writeGoto(cw, label) ==
    <<<<"/", "/", " ", "g", "o", "t", "o", " ">> \o label, <<"@">> \o cw.functionName \o <<"$">> \o label, <<"0", ";", "J", "M", "P">>>>

\* a counter of return addresses that stays where it is
retAddrCntSame(cw) == IF cw.retAddrCnt = NoAttribute THEN 0 ELSE cw.retAddrCnt

\* the try statement of writeCall: the new value of __retAddrCnt
retAddrCntNext(cw) == IF cw.retAddrCnt = NoAttribute THEN 0 ELSE cw.retAddrCnt + 1

writeCall(cw, functionName, numArgs) ==
    LET k == retAddrCntNext(cw)
        returnAddrLabel == functionName \o <<"$", "r", "e", "t", "u", "r", "n", "A", "d", "d", "r">> \o str(k)
    IN [cw |-> [cw EXCEPT !.retAddrCnt = k],
        text |->
            <<<<"/", "/", " ", "c", "a", "l", "l", " ">> \o functionName \o <<" ">> \o str(numArgs),
              <<"@">> \o returnAddrLabel, <<"D", "=", "A">>, <<"@", "S", "P">>, <<"A", "=", "M">>, <<"M", "=", "D">>>> \o incSP
            \o <<<<"/", "/", " ", "p", "u", "s", "h", " ", "L", "C", "L">>>> \o pushVal(<<"L", "C", "L">>)
            \o <<<<"/", "/", " ", "p", "u", "s", "h", " ", "A", "R", "G">>>> \o pushVal(<<"A", "R", "G">>)
            \o <<<<"/", "/", " ", "p", "u", "s", "h", " ", "T", "H", "I", "S">>>> \o pushVal(<<"T", "H", "I", "S">>)
            \o <<<<"/", "/", " ", "p", "u", "s", "h", " ", "T", "H", "A", "T">>>> \o pushVal(<<"T", "H", "A", "T">>)
            \o <<<<"/", "/", " ", "A", "R", "G", " ", "=", " ", "S", "P", "-", "n", "u", "m", "A", "r", "g", "s", "-", "5">>, <<"@", "S", "P">>, <<"D", "=", "M">>>>
            \o (IF numArgs # 0 THEN <<<<"@">> \o str(numArgs), <<"D", "=", "D", "-", "A">>>> ELSE <<>>)
            \o <<<<"@", "5">>, <<"D", "=", "D", "-", "A">>, <<"@", "A", "R", "G">>, <<"M", "=", "D">>,
                 <<"/", "/", " ", "L", "C", "L", " ", "=", " ", "S", "P">>, <<"@", "S", "P">>, <<"D", "=", "M">>, <<"@", "L", "C", "L">>, <<"M", "=", "D">>,
                 <<"/", "/", " ", "g", "o", "t", "o", " ">> \o functionName, <<"@">> \o functionName, <<"0", ";", "J", "M", "P">>,
                 <<"/", "/", " ", "d", "e", "c", "l", "a", "r", "e", " ", "l", "a", "b", "e", "l", " ", "f", "o", "r", " ", "t", "h", "e", " ", "r", "e", "t", "u", "r", "n", " ", "a", "d", "d", "r", "e", "s", "s">>,
                 <<"(">> \o returnAddrLabel \o <<")">>>>]

BootstrapLines == <<<<"/", "/", " ", "b", "o", "o", "t", "s", "t", "r", "a", "p", " ", "c", "o", "d", "e">>, <<"@", "2", "5", "6">>, <<"D", "=", "A">>, <<"@", "S", "P">>, <<"M", "=", "D">>>>

writeInit(cw) ==
    [cw |-> writeCall(cw, <<"S", "y", "s", ".", "i", "n", "i", "t">>, 0).cw,
     text |-> BootstrapLines \o writeCall(cw, <<"S", "y", "s", ".", "i", "n", "i", "t">>, 0).text]

writeFunction(cw, functionName, numLocals) ==
    [cw |-> [cw EXCEPT !.functionName = functionName],
     text |->
         <<<<"/", "/", " ", "f", "u", "n", "c", "t", "i", "o", "n", " ">> \o functionName \o <<" ">> \o str(numLocals),
           <<"(">> \o functionName \o <<")">>>>
         \o Repeat(<<<<"@", "S", "P">>, <<"A", "=", "M">>, <<"M", "=", "0">>>> \o incSP, numLocals)]

\* a writeReturn that reads the return address after *ARG=pop()
writeReturnRetLast(cw) ==
    LET frame == cw.functionName \o <<"$", "F", "R", "A", "M", "E">>
        returnAddr == cw.functionName \o <<"$", "R", "E", "T">>
    IN <<<<"/", "/", " ", "r", "e", "t", "u", "r", "n">>, <<"/", "/", " ", "F", "R", "A", "M", "E", " ", "=", " ", "L", "C", "L">>, <<"@", "L", "C", "L">>, <<"D", "=", "M">>, <<"@">> \o frame, <<"M", "=", "D">>,
         <<"/", "/", " ", "*", "A", "R", "G", "=", "p", "o", "p", "(", ")">>, <<"@", "S", "P">>, <<"M", "=", "M", "-", "1">>, <<"A", "=", "M">>, <<"D", "=", "M">>, <<"@", "A", "R", "G">>, <<"A", "=", "M">>, <<"M", "=", "D">>,
            <<"/", "/", " ", "S", "P", "=", "A", "R", "G", "+", "1">>, <<"@", "A", "R", "G">>, <<"D", "=", "M", "+", "1">>, <<"@", "S", "P">>, <<"M", "=", "D">>,
            <<"/", "/", " ", "T", "H", "A", "T", " ", "=", " ", "*", "(", "F", "R", "A", "M", "E", "-", "1", ")">>>>
       \o offset(<<"T", "H", "A", "T">>, frame, 1)
       \o <<<<"/", "/", " ", "T", "H", "I", "S", " ", "=", " ", "*", "(", "F", "R", "A", "M", "E", "-", "2", ")">>>>
       \o offset(<<"T", "H", "I", "S">>, frame, 2)
       \o <<<<"/", "/", " ", "A", "R", "G", " ", "=", " ", "*", "(", "F", "R", "A", "M", "E", "-", "3", ")">>>>
       \o offset(<<"A", "R", "G">>, frame, 3)
       \o <<<<"/", "/", " ", "L", "C", "L", " ", "=", " ", "*", "(", "F", "R", "A", "M", "E", "-", "4", ")">>>>
       \o offset(<<"L", "C", "L">>, frame, 4)
       \o <<<<"/", "/", " ", "R", "E", "T", " ", "=", " ", "*", "(", "F", "R", "A", "M", "E", "-", "5", ")">>>>
       \o offset(returnAddr, frame, 5)
       \o <<<<"/", "/", " ", "g", "o", "t", "o", " ", "R", "E", "T">>, <<"@">> \o returnAddr, <<"A", "=", "M">>, <<"0", ";", "J", "M", "P">>>>

writeReturn(cw) ==
    LET frame == cw.functionName \o <<"$", "F", "R", "A", "M", "E">>
        returnAddr == cw.functionName \o <<"$", "R", "E", "T">>
    IN <<<<"/", "/", " ", "r", "e", "t", "u", "r", "n">>, <<"/", "/", " ", "F", "R", "A", "M", "E", " ", "=", " ", "L", "C", "L">>, <<"@", "L", "C", "L">>, <<"D", "=", "M">>, <<"@">> \o frame, <<"M", "=", "D">>,
         <<"/", "/", " ", "R", "E", "T", " ", "=", " ", "*", "(", "F", "R", "A", "M", "E", "-", "5", ")">>>>
       \o offset(returnAddr, frame, 5)
       \o <<<<"/", "/", " ", "*", "A", "R", "G", "=", "p", "o", "p", "(", ")">>, <<"@", "S", "P">>, <<"M", "=", "M", "-", "1">>, <<"A", "=", "M">>, <<"D", "=", "M">>, <<"@", "A", "R", "G">>, <<"A", "=", "M">>, <<"M", "=", "D">>,
            <<"/", "/", " ", "S", "P", "=", "A", "R", "G", "+", "1">>, <<"@", "A", "R", "G">>, <<"D", "=", "M", "+", "1">>, <<"@", "S", "P">>, <<"M", "=", "D">>,
            <<"/", "/", " ", "T", "H", "A", "T", " ", "=", " ", "*", "(", "F", "R", "A", "M", "E", "-", "1", ")">>>>
       \o offset(<<"T", "H", "A", "T">>, frame, 1)
       \o <<<<"/", "/", " ", "T", "H", "I", "S", " ", "=", " ", "*", "(", "F", "R", "A", "M", "E", "-", "2", ")">>>>
       \o offset(<<"T", "H", "I", "S">>, frame, 2)
       \o <<<<"/", "/", " ", "A", "R", "G", " ", "=", " ", "*", "(", "F", "R", "A", "M", "E", "-", "3", ")">>>>
       \o offset(<<"A", "R", "G">>, frame, 3)
       \o <<<<"/", "/", " ", "L", "C", "L", " ", "=", " ", "*", "(", "F", "R", "A", "M", "E", "-", "4", ")">>>>
       \o offset(<<"L", "C", "L">>, frame, 4)
       \o <<<<"/", "/", " ", "g", "o", "t", "o", " ", "R", "E", "T">>, <<"@">> \o returnAddr, <<"A", "=", "M">>, <<"0", ";", "J", "M", "P">>>>

---------------------------------------------------------------------------
(* VMtranslator: the inputs of the model *)

\* the number of lines a run reads from its .vm files, all files together
MaxVMLines == 2

\* the number of .vm files of a directory
MaxVMFiles == 2

\* raw lines of .vm files, as readline() returns them
VMLines ==
    {<<"a", "d", "d">> \o NL, <<"e", "q">> \o NL, <<"l", "t">> \o NL, <<"r", "e", "t", "u", "r", "n">> \o NL,
     <<"l", "a", "b", "e", "l", " ", "L">> \o NL, <<"g", "o", "t", "o", " ", "L">> \o NL, <<"i", "f", "-", "g", "o", "t", "o", " ", "L">> \o NL,
     <<"f", "u", "n", "c", "t", "i", "o", "n", " ", "f", " ", "1">> \o NL, <<"c", "a", "l", "l", " ", "f", " ", "1">> \o NL,
     <<"p", "u", "s", "h", " ", " ", "s", "t", "a", "t", "i", "c", "\t", "3", " ", "/", "/", " ", "c">> \o NL, <<"p", "o", "p", " ", "s", "t", "a", "t", "i", "c", " ", "3">> \o NL,
     <<"/", "/", " ", "c">> \o NL,
     <<"a", "d", "d", "x">> \o NL, <<"e", "q", "x">> \o NL, <<"r", "e", "t", "u", "r", "n", "s">> \o NL, <<"p", "u", "s", "h", "y", " ", "l", "o", "c", "a", "l", " ", "0">> \o NL,
     <<"p", "u", "s", "h", " ", "l", "o", "c", "a", "l", " ", "0", " ", "0">> \o NL, <<"p", "u", "s", "h", " ", "l", "o", "c", "a", "l", " ", "x">> \o NL}

\* the lines Parser.advance skips
SkipLines == {raw \in VMLines : VMRemoveComments(Strip(raw)) = <<>>}

\* what readline() returns to one call of Parser.advance that finds a
\* command: at most n lines in all, lines that are skipped and then a line
\* that is not
Chunks(n) ==
    {skips \o <<raw>> :
        skips \in UNION {[1..m -> SkipLines] : m \in 0..n - 1},
        raw \in VMLines \ SkipLines}

\* what readline() returns to a call of Parser.advance that finds the end of
\* the file: at most n lines that are skipped
LastChunks(n) == UNION {[1..m -> SkipLines] : m \in 0..n}

\* the entries of the directory, in the order os.listdir returns them
DirNames == <<<<"F", "o", "o", ".", "v", "m">>, <<"P", "r", "o", "g", "r", "a", "m", ".", "v", "m">>, <<"B", "a", "r", ".", "v", "m">>, <<"B", "a", "z", ".", "v", "m">>>>

\* a run on a directory of k .vm files and the .asm file of an earlier run,
\* and a run on one file. files[i] is what has been read of the i-th file of
\* the run: nothing, when the run starts
Runs ==
    {[argv1 |-> <<"d", "i", "r">>,
      isdir |-> TRUE,
      listdir |-> SubSeq(DirNames, 1, k) \o <<<<"d", "i", "r", ".", "a", "s", "m">>>>,
      files |-> [i \in 1..k |-> <<>>]] : k \in 0..MaxVMFiles}
    \cup
    {[argv1 |-> a, isdir |-> FALSE, listdir |-> <<>>, files |-> <<<<>>>>] :
        a \in {<<"P", "r", "o", "g", "r", "a", "m", ".", "v", "m">>, <<"d", "/", "F", "o", "o", ".", "v", "m">>}}

---------------------------------------------------------------------------
(* VMtranslator: main *)

\* os.path.join of a directory and a name
join(a, b) == a \o <<"/">> \o b

\* re.match(r'.*\.vm$', el)
IsVMFile(el) == IsSuffix(<<".", "v", "m">>, Body(el)) /\ AllDots(Body(el))

Joined(r) == [i \in 1..Len(r.listdir) |-> join(r.argv1, r.listdir[i])]

\* main's fileList
fileList(r) == IF r.isdir THEN SelectSeq(Joined(r), IsVMFile) ELSE <<r.argv1>>

\* main's outputFileName
outputFileName(r) ==
    (IF r.isdir THEN join(r.argv1, basename(r.argv1))
     ELSE rstrip(r.argv1, {".", "v", "m"})) \o <<".", "a", "s", "m">>

\* main's codeWriter before a CodeWriter is instantiated
NoCodeWriter ==
    [fileName |-> None, functionName |-> None,
     retAddrCnt |-> NoAttribute, cnt |-> NoAttribute]

\* the number of lines read so far
NumberRead == LET RECURSIVE Sum(_)
                  Sum(i) == IF i = 0 THEN 0 ELSE Len(run.files[i]) + Sum(i - 1)
              IN Sum(Len(run.files))

\* the lines that can still be read
Budget == MaxVMLines - NumberRead

\* the CodeWriter becomes w.cw and the lines w.text are written: the log
\* keeps which method wrote them, for which command, and the CodeWriter
\* before and after
Write(op, n, l, w) ==
    /\ codeWriter' = w.cw
    /\ asm' = asm \o w.text
    /\ log' = Append(log, [op |-> op, file |-> n, line |-> l,
                           first |-> Len(asm) + 1, last |-> Len(asm) + Len(w.text),
                           before |-> codeWriter, after |-> w.cw])

VMInit ==
    /\ run \in Runs
    /\ vpc = "for"
    /\ fileNo = 0
    /\ vpos = 0
    /\ codeWriter = NoCodeWriter
    /\ asm = <<>>
    /\ log = <<>>
    /\ AsmIdle
    /\ HackIdle

\* the for loop takes the first file: codeWriter.setFileName raises
\* AttributeError, the CodeWriter is instantiated and writeInit is called
FirstFile ==
    /\ vpc = "for"
    /\ fileNo < Len(fileList(run))
    /\ codeWriter = NoCodeWriter
    /\ Write("writeInit", fileNo + 1, <<>>, writeInit(CodeWriterInit(outputFileName(run))))
    /\ fileNo' = fileNo + 1
    /\ vpos' = 0
    /\ vpc' = "while"
    /\ UNCHANGED <<run, asmvars, hackvars>>

\* a for loop that writes the bootstrap code for every file
NextFileBootstrap ==
    /\ vpc = "for"
    /\ fileNo < Len(fileList(run))
    /\ codeWriter # NoCodeWriter
    /\ Write("writeInit", fileNo + 1, <<>>,
             writeInit(setFileName(codeWriter, fileList(run)[fileNo + 1])))
    /\ fileNo' = fileNo + 1
    /\ vpos' = 0
    /\ vpc' = "while"
    /\ UNCHANGED <<run, asmvars, hackvars>>

\* the for loop takes another file: setFileName
NextFile ==
    /\ vpc = "for"
    /\ fileNo < Len(fileList(run))
    /\ codeWriter # NoCodeWriter
    /\ Write("setFileName", fileNo + 1, <<>>,
             [cw |-> setFileName(codeWriter, fileList(run)[fileNo + 1]), text |-> <<>>])
    /\ fileNo' = fileNo + 1
    /\ vpos' = 0
    /\ vpc' = "while"
    /\ UNCHANGED <<run, asmvars, hackvars>>

\* what Parser.advance returns and makes the current command, when the file
\* goes on with the lines of chunk
Advanced(chunk) == VMadvance(run.files[fileNo] \o chunk, vpos)

\* the file goes on with the lines of chunk and the while loop goes on with
\* a command of type t
Command(t, chunk) ==
    /\ vpc = "while"
    /\ Advanced(chunk).ok
    /\ VMcommandType(Advanced(chunk).line) = t
    /\ vpos' = Advanced(chunk).pos
    /\ run' = [run EXCEPT !.files[fileNo] = @ \o chunk]

\* int(parser.arg2())
Number(chunk) == int(arg2(Advanced(chunk).line))

TranslateArithmetic ==
    \E chunk \in Chunks(Budget) :
        /\ Command(C_ARITHMETIC, chunk)
        /\ Write("writeArithmetic", fileNo, Advanced(chunk).line,
                 writeArithmetic(codeWriter, arg1(Advanced(chunk).line)))
        /\ UNCHANGED <<vpc, fileNo, asmvars, hackvars>>

TranslatePush ==
    \E chunk \in Chunks(Budget) :
        /\ Command(C_PUSH, chunk)
        /\ IntOk(arg2(Advanced(chunk).line))
        /\ Write("writePushPop", fileNo, Advanced(chunk).line,
                 [cw |-> codeWriter,
                  text |-> writePushPop(codeWriter, C_PUSH,
                                        arg1(Advanced(chunk).line), Number(chunk))])
        /\ UNCHANGED <<vpc, fileNo, asmvars, hackvars>>

TranslatePop ==
    \E chunk \in Chunks(Budget) :
        /\ Command(C_POP, chunk)
        /\ IntOk(arg2(Advanced(chunk).line))
        /\ Write("writePushPop", fileNo, Advanced(chunk).line,
                 [cw |-> codeWriter,
                  text |-> writePushPop(codeWriter, C_POP,
                                        arg1(Advanced(chunk).line), Number(chunk))])
        /\ UNCHANGED <<vpc, fileNo, asmvars, hackvars>>

TranslateIf ==
    \E chunk \in Chunks(Budget) :
        /\ Command(C_IF, chunk)
        /\ Write("writeIf", fileNo, Advanced(chunk).line,
                 [cw |-> codeWriter, text |-> writeIf(codeWriter, arg1(Advanced(chunk).line))])
        /\ UNCHANGED <<vpc, fileNo, asmvars, hackvars>>

TranslateGoto ==
    \E chunk \in Chunks(Budget) :
        /\ Command(C_GOTO, chunk)
        /\ Write("writeGoto", fileNo, Advanced(chunk).line,
                 [cw |-> codeWriter, text |-> writeGoto(codeWriter, arg1(Advanced(chunk).line))])
        /\ UNCHANGED <<vpc, fileNo, asmvars, hackvars>>

TranslateLabel ==
    \E chunk \in Chunks(Budget) :
        /\ Command(C_LABEL, chunk)
        /\ Write("writeLabel", fileNo, Advanced(chunk).line,
                 [cw |-> codeWriter, text |-> writeLabel(codeWriter, arg1(Advanced(chunk).line))])
        /\ UNCHANGED <<vpc, fileNo, asmvars, hackvars>>

TranslateFunction ==
    \E chunk \in Chunks(Budget) :
        /\ Command(C_FUNCTION, chunk)
        /\ IntOk(arg2(Advanced(chunk).line))
        /\ Write("writeFunction", fileNo, Advanced(chunk).line,
                 writeFunction(codeWriter, arg1(Advanced(chunk).line), Number(chunk)))
        /\ UNCHANGED <<vpc, fileNo, asmvars, hackvars>>

TranslateReturn ==
    \E chunk \in Chunks(Budget) :
        /\ Command(C_RETURN, chunk)
        /\ Write("writeReturn", fileNo, Advanced(chunk).line,
                 [cw |-> codeWriter, text |-> writeReturn(codeWriter)])
        /\ UNCHANGED <<vpc, fileNo, asmvars, hackvars>>

TranslateCall ==
    \E chunk \in Chunks(Budget) :
        /\ Command(C_CALL, chunk)
        /\ IntOk(arg2(Advanced(chunk).line))
        /\ Write("writeCall", fileNo, Advanced(chunk).line,
                 writeCall(codeWriter, arg1(Advanced(chunk).line), Number(chunk)))
        /\ UNCHANGED <<vpc, fileNo, asmvars, hackvars>>

\* commandType finds C_UNKNOWN: its print raises NameError (element is not
\* defined) before sys.exit(1) is reached; the run ends either way
UnknownCommand ==
    \E chunk \in Chunks(Budget) :
        /\ Command(C_UNKNOWN, chunk)
        /\ vpc' = "error"
        /\ UNCHANGED <<fileNo, codeWriter, asm, log, asmvars, hackvars>>

\* int(parser.arg2()) raises ValueError
NotANumber ==
    \E chunk \in Chunks(Budget) :
        /\ \E t \in {C_PUSH, C_POP, C_FUNCTION, C_CALL} : Command(t, chunk)
        /\ ~IntOk(arg2(Advanced(chunk).line))
        /\ vpc' = "error"
        /\ UNCHANGED <<fileNo, codeWriter, asm, log, asmvars, hackvars>>

\* the file ends: advance returns False and the while loop ends
EndOfFile ==
    \E chunk \in LastChunks(Budget) :
        /\ vpc = "while"
        /\ ~Advanced(chunk).ok
        /\ vpos' = Advanced(chunk).pos
        /\ run' = [run EXCEPT !.files[fileNo] = @ \o chunk]
        /\ vpc' = "for"
        /\ UNCHANGED <<fileNo, codeWriter, asm, log, asmvars, hackvars>>

\* after the last file: codeWriter.close(), which raises AttributeError when
\* there was no file and codeWriter is still None
Close ==
    /\ vpc = "for"
    /\ fileNo = Len(fileList(run))
    /\ vpc' = IF codeWriter = NoCodeWriter THEN "error" ELSE "done"
    /\ UNCHANGED <<run, fileNo, vpos, codeWriter, asm, log, asmvars, hackvars>>

VMNext ==
    \/ FirstFile
    \/ NextFile
    \/ TranslateArithmetic
    \/ TranslatePush
    \/ TranslatePop
    \/ TranslateIf
    \/ TranslateGoto
    \/ TranslateLabel
    \/ TranslateFunction
    \/ TranslateReturn
    \/ TranslateCall
    \/ UnknownCommand
    \/ NotANumber
    \/ EndOfFile
    \/ Close

SpecVM == VMInit /\ [][VMNext]_vars

---------------------------------------------------------------------------
(* What the specification says of a run of the VM translator, for the     *)
(* statements below                                                        *)

\* the records of the log written by one of the methods ops
Records(ops) == {i \in 1..Len(log) : log[i].op \in ops}

\* the lines written by the call record i of the log
LinesOf(i) == {asm[n] : n \in log[i].first..log[i].last}

\* the tokens of the command the record i was written for
Tokens(i) == Split(log[i].line)

\* the short name of an input file: its base name without '.vm'
ShortName(path) == WithoutExtension(basename(path), <<".", "v", "m">>)

\* the value of a counter that starts at 0
Counted(c) == IF c = NoAttribute THEN 0 ELSE c

\* the places of the .asm file where the four instructions of the bootstrap
\* block stand
BootstrapPlaces ==
    {n \in 1..Len(asm) - 3 :
        /\ asm[n] = <<"@", "2", "5", "6">>
        /\ asm[n + 1] = <<"D", "=", "A">>
        /\ asm[n + 2] = <<"@", "S", "P">>
        /\ asm[n + 3] = <<"M", "=", "D">>}

\* the keywords of the VM language for a command of n tokens
Keywords(n) ==
    IF n = 1 THEN ARITHMETIC \cup {<<"r", "e", "t", "u", "r", "n">>}
    ELSE IF n = 2 THEN {<<"l", "a", "b", "e", "l">>, <<"g", "o", "t", "o">>, <<"i", "f", "-", "g", "o", "t", "o">>}
    ELSE IF n = 3 THEN {<<"f", "u", "n", "c", "t", "i", "o", "n">>, <<"c", "a", "l", "l">>, <<"p", "u", "s", "h">>, <<"p", "o", "p">>}
    ELSE {}

\* a cleaned line is a command of the VM language
IsVMCommand(l) == Split(l)[1] \in Keywords(Len(Split(l)))

\* the raw lines read so far, in all files
LinesRead == UNION {{run.files[f][n] : n \in 1..Len(run.files[f])} : f \in 1..Len(run.files)}

---------------------------------------------------------------------------
(* The claims on the VM translator *)

Callee(i) == IF log[i].op = "writeInit" THEN <<"S", "y", "s", ".", "i", "n", "i", "t">> ELSE Tokens(i)[2]

\* the return label of a call record with the counter suffix k
ReturnLabel(i, k) == Callee(i) \o <<"$", "r", "e", "t", "u", "r", "n", "A", "d", "d", "r">> \o str(k)

\* the line of the .asm file where the call sequence of a call record starts
CallStart(i) == IF log[i].op = "writeInit" THEN log[i].first + 5 ELSE log[i].first

\* C14: every call sequence, the one of the bootstrap included, pushes f$returnAddr<k>
\* and declares the same label as its last line, where k is greater than the
\* k of every earlier call; the label is declared once in the .asm file.
C14_ReturnLabelsUnique ==
    \A i \in Records({"writeInit", "writeCall"}) :
        LET k == log[i].after.retAddrCnt
            label == ReturnLabel(i, k)
            declaration == <<"(">> \o label \o <<")">>
        IN /\ k >= 0
           /\ asm[CallStart(i) + 1] = <<"@">> \o label
           /\ asm[log[i].last] = declaration
           /\ \A j \in Records({"writeInit", "writeCall"}) :
                  j < i => log[j].after.retAddrCnt < k
           /\ \A n \in 1..Len(asm) : asm[n] = declaration => n = log[i].last

\* two calls of the same function have been translated after the bootstrap
C14_Witness ==
    \E i, j \in Records({"writeCall"}) :
        /\ i < j
        /\ Callee(i) = Callee(j)
        /\ vpc = "done"

\* the records of the comparisons: the commands eq, gt and lt
Comparisons ==
    {i \in Records({"writeArithmetic"}) : log[i].line \in {<<"e", "q">>, <<"g", "t">>, <<"l", "t">>}}

\* C15: the comparison counter starts at 0; a comparison, the k-th of the
\* run, uses <OP>k as its jump target and as the label it declares and adds 1
\* to the counter; no other call changes the counter.
C15_ComparisonLabels ==
    \A i \in 1..Len(log) :
        IF i \in Comparisons
        THEN LET k == Cardinality({j \in Comparisons : j < i})
                 label == upper(log[i].line) \o str(k)
             IN /\ Counted(log[i].before.cnt) = k
                /\ log[i].after.cnt = k + 1
                /\ <<"@">> \o label \in LinesOf(i)
                /\ <<"(">> \o label \o <<")">> \in LinesOf(i)
        ELSE Counted(log[i].after.cnt) = Counted(log[i].before.cnt)

\* C16 as stated: setFileName changes file_short_name only: current_function
\* and both counters are what they were.
C16_SetFileNameAsStated ==
    \A i \in Records({"setFileName"}) :
        /\ log[i].after.functionName = log[i].before.functionName
        /\ log[i].after.retAddrCnt = log[i].before.retAddrCnt
        /\ log[i].after.cnt = log[i].before.cnt

\* C16: setFileName sets file_short_name and sets current_function to the
\* same name; both counters are what they were and nothing is written.
C16_SetFileName ==
    \A i \in Records({"setFileName"}) :
        /\ log[i].after.functionName = log[i].after.fileName
        /\ log[i].after.fileName
               = rstrip(basename(fileList(run)[log[i].file]), {".", "v", "m"})
        /\ log[i].after.retAddrCnt = log[i].before.retAddrCnt
        /\ log[i].after.cnt = log[i].before.cnt
        /\ log[i].last < log[i].first

\* setFileName was called after a function command of an earlier file
C16_Witness ==
    \E i \in Records({"setFileName"}) :
        /\ \E j \in Records({"writeFunction"}) :
               j < i /\ log[i].before.functionName = Tokens(j)[2]
        /\ log[i].after.functionName # log[i].before.functionName

\* C17: push static i and pop static i refer to <short>.<i>, where short is
\* the base name of the file the command is in, without '.vm'.
C17_StaticSymbol ==
    \A i \in Records({"writePushPop"}) :
        Tokens(i)[2] = <<"s", "t", "a", "t", "i", "c">>
            => <<"@">> \o ShortName(fileList(run)[log[i].file]) \o <<".">> \o Tokens(i)[3]
                   \in LinesOf(i)

\* the current function by the specification: the name of the most recent
\* function command, else the short name of the file the command is in
CurrentFunction(i) ==
    IF \E j \in Records({"writeFunction"}) : j < i
    THEN Tokens(CHOOSE j \in Records({"writeFunction"}) :
                    j < i /\ \A h \in Records({"writeFunction"}) : h < i => h <= j)[2]
    ELSE ShortName(fileList(run)[log[i].file])

\* C18: label L declares, and goto L and if-goto L refer to, the symbol
\* <current_function>$L.
C18_LabelSymbol ==
    /\ \A i \in Records({"writeLabel"}) :
           <<"(">> \o CurrentFunction(i) \o <<"$">> \o Tokens(i)[2] \o <<")">> \in LinesOf(i)
    /\ \A i \in Records({"writeGoto", "writeIf"}) :
           <<"@">> \o CurrentFunction(i) \o <<"$">> \o Tokens(i)[2] \in LinesOf(i)

\* C19: a line whose first token is not a keyword of the commands of its
\* number of tokens ends the translation: while the run has not ended with
\* an error, every line read is a command, and every record of the log was
\* written for a command.
C19_OnlyKeywordsAccepted ==
    /\ vpc # "error"
        => \A raw \in LinesRead : VMCleanLine(raw) # <<>> => IsVMCommand(VMCleanLine(raw))
    /\ \A i \in 1..Len(log) : log[i].line # <<>> => IsVMCommand(log[i].line)

---------------------------------------------------------------------------
(* The two passes of the assembler *)

\* the lines of the file where the first pass binds a label
BindingLines ==
    {i \in 1..Len(file) :
        CleanLine(file[i]) # <<>> /\ commandType(CleanLine(file[i])) = L_COMMAND}

\* the number of words the second pass has written before it reaches line i
WordsBefore(i) == Cardinality({k \in 1..Len(written) : written[k].src < i})

(* C25: for any input, the two passes agree on ROM addresses: at the end   *)
(* of a run, the value the first pass has bound to a label is the number   *)
(* of words the second pass has written before the declaration of the      *)
(* label (the last one, for a label declared more than once), so that no   *)
(* line is counted in the first pass and left without a word in the second.*)
C25_PassesAgree ==
    pc = "done"
        => \A i \in BindingLines :
               (\A h \in BindingLines :
                    symbol(CleanLine(file[h])) = symbol(CleanLine(file[i])) => h <= i)
                   => getAddress(table, symbol(CleanLine(file[i]))) = WordsBefore(i)

---------------------------------------------------------------------------
(* The Hack machine, on which the lines written by the CodeWriter run. It  *)
(* is not a part of the repository: the program is loaded as the Hack      *)
(* assembly language defines it (labels are bound to the address of the    *)
(* next instruction, variables to 16, 17, ... in the order they appear),   *)
(* and an instruction does what the Hack CPU does with it, on 16-bit words.*)

Word == 2 ^ 16

\* the signed value of a word
Signed(w) == IF w >= Word \div 2 THEN w - Word ELSE w

Add16(x, y) == (x + y) % Word

Sub16(x, y) == (x - y + Word) % Word

Not16(x) == Word - 1 - x

RECURSIVE AndBits(_, _, _)
AndBits(x, y, n) ==
    IF n = 0 THEN 0
    ELSE (x % 2) * (y % 2) + 2 * AndBits(x \div 2, y \div 2, n - 1)

And16(x, y) == AndBits(x, y, 16)

Or16(x, y) == x + y - And16(x, y)

\* what the ALU computes for a comp mnemonic, from the registers A and D
\* and the memory word m = RAM[A]
Alu(c, a, d, m) ==
    CASE c = <<"0">> -> 0
      [] c = <<"1">> -> 1
      [] c = <<"-", "1">> -> Word - 1
      [] c = <<"D">> -> d
      [] c = <<"A">> -> a
      [] c = <<"M">> -> m
      [] c = <<"!", "D">> -> Not16(d)
      [] c = <<"!", "A">> -> Not16(a)
      [] c = <<"!", "M">> -> Not16(m)
      [] c = <<"-", "D">> -> Sub16(0, d)
      [] c = <<"-", "A">> -> Sub16(0, a)
      [] c = <<"-", "M">> -> Sub16(0, m)
      [] c = <<"D", "+", "1">> -> Add16(d, 1)
      [] c = <<"A", "+", "1">> -> Add16(a, 1)
      [] c = <<"M", "+", "1">> -> Add16(m, 1)
      [] c = <<"D", "-", "1">> -> Sub16(d, 1)
      [] c = <<"A", "-", "1">> -> Sub16(a, 1)
      [] c = <<"M", "-", "1">> -> Sub16(m, 1)
      [] c = <<"D", "+", "A">> -> Add16(d, a)
      [] c = <<"D", "+", "M">> -> Add16(d, m)
      [] c = <<"D", "-", "A">> -> Sub16(d, a)
      [] c = <<"D", "-", "M">> -> Sub16(d, m)
      [] c = <<"A", "-", "D">> -> Sub16(a, d)
      [] c = <<"M", "-", "D">> -> Sub16(m, d)
      [] c = <<"D", "&", "A">> -> And16(d, a)
      [] c = <<"D", "&", "M">> -> And16(d, m)
      [] c = <<"D", "|", "A">> -> Or16(d, a)
      [] c = <<"D", "|", "M">> -> Or16(d, m)

\* the jump of a mnemonic is taken on the output w of the ALU
JumpTaken(j, w) ==
    CASE j = <<"J", "G", "T">> -> Signed(w) > 0
      [] j = <<"J", "E", "Q">> -> w = 0
      [] j = <<"J", "G", "E">> -> Signed(w) >= 0
      [] j = <<"J", "L", "T">> -> Signed(w) < 0
      [] j = <<"J", "N", "E">> -> w # 0
      [] j = <<"J", "L", "E">> -> Signed(w) <= 0
      [] j = <<"J", "M", "P">> -> TRUE

\* the place of the first character c in s, 0 when there is none
Find(s, c) ==
    IF \E i \in 1..Len(s) : s[i] = c
    THEN CHOOSE i \in 1..Len(s) : s[i] = c /\ \A h \in 1..i - 1 : s[h] # c
    ELSE 0

IsCommentLine(l) == IsPrefix(<<"/", "/">>, l)

IsLabelLine(l) == l # <<>> /\ l[1] = "("

IsCodeLine(l) == l # <<>> /\ ~IsCommentLine(l) /\ ~IsLabelLine(l)

\* the number of instructions of a text
CodeLength(text) == Len(SelectSeq(text, IsCodeLine))

\* the name a label line declares
LabelName(l) == SubSeq(l, 2, Len(l) - 1)

\* the symbol of an A-instruction that is not a number
IsSymbolLine(l) ==
    IsCodeLine(l) /\ l[1] = "@" /\ \E h \in 2..Len(l) : l[h] \notin DIGIT

\* the first line of a text that satisfies Test
FirstLine(text, Test(_)) ==
    LET lines == {i \in 1..Len(text) : Test(text[i])}
    IN CHOOSE i \in lines : \A h \in lines : i <= h

\* the labels of a text, bound to the address of the next instruction
LabelTable(text) ==
    [name \in {LabelName(text[i]) : i \in {h \in 1..Len(text) : IsLabelLine(text[h])}} |->
        LET Declares(l) == IsLabelLine(l) /\ LabelName(l) = name
        IN CodeLength(SubSeq(text, 1, FirstLine(text, Declares)))]

\* the other names of a text, bound to 16, 17, ... as they appear
VariableTable(text) ==
    LET names == {Tail(text[i]) : i \in {h \in 1..Len(text) : IsSymbolLine(text[h])}}
                 \ (DOMAIN SymbolTableInit \cup DOMAIN LabelTable(text))
        First(name) == LET Names(l) == IsSymbolLine(l) /\ Tail(l) = name
                       IN FirstLine(text, Names)
        first == [name \in names |-> First(name)]
    IN [name \in names |-> 16 + Cardinality({m \in names : first[m] < first[name]})]

\* the symbol table of a text: predefined symbols, labels, variables
Symbols(text) ==
    LET labels == LabelTable(text)
        variables == VariableTable(text)
    IN [name \in DOMAIN SymbolTableInit \cup DOMAIN labels \cup DOMAIN variables |->
           IF name \in DOMAIN SymbolTableInit THEN SymbolTableInit[name]
           ELSE IF name \in DOMAIN labels THEN labels[name]
           ELSE variables[name]]

\* an instruction of a text, decoded: an A-instruction with its value, or a
\* C-instruction with its three fields
Decode(l, t) ==
    IF l[1] = "@"
    THEN [isA |-> TRUE,
          value |-> IF Tail(l) \in DOMAIN t THEN t[Tail(l)]
                    ELSE DecimalValue(Tail(l)),
          dest |-> <<>>, comp |-> <<>>, jump |-> <<>>]
    ELSE LET e == Find(l, "=")
             s == IF Find(l, ";") = 0 THEN Len(l) + 1 ELSE Find(l, ";")
         IN [isA |-> FALSE,
             value |-> 0,
             dest |-> SubSeq(l, 1, e - 1),
             comp |-> SubSeq(l, e + 1, s - 1),
             jump |-> SubSeq(l, s + 1, Len(l))]

\* the ROM a text is loaded into
Load(text) ==
    LET t == Symbols(text)
        code == SelectSeq(text, IsCodeLine)
    IN [i \in 1..Len(code) |-> Decode(code[i], t)]

\* the instruction the machine is at
Current == rom[ip + 1]

\* the instruction reads or writes RAM[A]
UsesM(i) == (\E h \in 1..Len(i.comp) : i.comp[h] = "M") \/ (\E h \in 1..Len(i.dest) : i.dest[h] = "M")

\* the machine runs: it has not reached the address where the run is observed
Running == ip \in 0..Len(rom) - 1 /\ ip # scenario.stop

\* an A-instruction
StepA ==
    /\ Running
    /\ Current.isA
    /\ regA' = Current.value
    /\ ip' = ip + 1
    /\ prev' = ip
    /\ UNCHANGED <<rom, regD, ram, scenario, asmvars, vmvars>>

\* the effect of a C-instruction on the registers and the memory; w is the
\* output of the ALU
Compute(w) ==
    /\ regA' = IF \E h \in 1..Len(Current.dest) : Current.dest[h] = "A" THEN w ELSE regA
    /\ regD' = IF \E h \in 1..Len(Current.dest) : Current.dest[h] = "D" THEN w ELSE regD
    /\ ram' = IF \E h \in 1..Len(Current.dest) : Current.dest[h] = "M"
              THEN [ram EXCEPT ![regA] = w] ELSE ram
    /\ prev' = ip

\* the output of the ALU for the instruction the machine is at
Output == Alu(Current.comp, regA, regD, IF UsesM(Current) THEN ram[regA] ELSE 0)

\* a C-instruction without a jump
StepC ==
    /\ Running
    /\ ~Current.isA
    /\ Current.jump = <<>>
    /\ UsesM(Current) => regA \in DOMAIN ram
    /\ Compute(Output)
    /\ ip' = ip + 1
    /\ UNCHANGED <<rom, scenario, asmvars, vmvars>>

\* a C-instruction with a jump: to ROM[A] when the jump is taken
StepJump ==
    /\ Running
    /\ ~Current.isA
    /\ Current.jump # <<>>
    /\ UsesM(Current) => regA \in DOMAIN ram
    /\ Compute(Output)
    /\ ip' = IF JumpTaken(Current.jump, Output) THEN regA ELSE ip + 1
    /\ UNCHANGED <<rom, scenario, asmvars, vmvars>>

HackNext ==
    \/ StepA
    \/ StepC
    \/ StepJump

---------------------------------------------------------------------------
(* Runs of translated programs: a call, the function called and its return *)

MaxArgs == 2

MaxLocals == 1

\* the values the function called returns
ReturnValues == {0, 7, 32767}

\* what LCL, ARG, THIS and THAT hold before the call
CallerSegments == {<<300, 400, 3000, 4000>>, <<0, 0, 0, 0>>, <<65535, 1, 32768, 2>>}

\* the bodies of the function called: it pushes the value; it sets THIS and
\* THAT, leaves a value on its stack and pushes the value; it calls a
\* function that returns the value
Bodies == 1..3

CalleeName == <<"F", "o", "o", ".", "f">>

InnerName == <<"F", "o", "o", ".", "g">>

\* the program stops in this loop, which follows the call
Harness == <<<<"(", "E", "N", "D", ")">>, <<"@", "E", "N", "D">>, <<"0", ";", "J", "M", "P">>>>

\* the lines written for: call Foo.f n, then function Foo.f k, its body and
\* return; and for function Foo.g 1 with its return, which body 3 calls
CallText(n, k, v, b) ==
    LET c == writeCall(CodeWriterInit(<<"F", "o", "o", ".", "a", "s", "m">>), CalleeName, n)
        f == writeFunction(c.cw, CalleeName, k)
        push(cw, x) == writePushPop(cw, C_PUSH, <<"c", "o", "n", "s", "t", "a", "n", "t">>, x)
        pop(cw, i) == writePushPop(cw, C_POP, <<"p", "o", "i", "n", "t", "e", "r">>, i)
        inner == writeCall(f.cw, InnerName, 0)
        g == writeFunction(inner.cw, InnerName, 1)
    IN [call |-> c.text,
        callee |-> f.text
                   \o (CASE b = 1 -> push(f.cw, v)
                         [] b = 2 -> push(f.cw, 9) \o pop(f.cw, 0) \o push(f.cw, 8)
                                     \o pop(f.cw, 1) \o push(f.cw, 5) \o push(f.cw, v)
                         [] b = 3 -> inner.text)
                   \o writeReturn(f.cw),
        inner |-> IF b = 3 THEN g.text \o push(g.cw, v) \o writeReturn(g.cw) ELSE <<>>]

\* the programs of the runs, loaded
CallPrograms ==
    [n \in 0..MaxArgs, k \in 0..MaxLocals, v \in ReturnValues, b \in Bodies |->
        LET t == CallText(n, k, v, b)
        IN [rom |-> Load(t.call \o Harness \o t.callee \o t.inner),
            stop |-> CodeLength(t.call),
            callee |-> CodeLength(t.call \o Harness),
            retJump |-> CodeLength(t.call \o Harness \o t.callee) - 1]]

\* the memory the runs use
RamTop == 270 + MaxArgs + MaxLocals

\* the runs: the caller has n arguments on its stack, SP at SP0
CallScenarios ==
    { [kind |-> "call", n |-> n, k |-> k, v |-> v, body |-> b, SP0 |-> 256 + n + s,
       segments |-> seg,
       stop |-> CallPrograms[n, k, v, b].stop,
       retJump |-> CallPrograms[n, k, v, b].retJump] :
      n \in 0..MaxArgs, k \in 0..MaxLocals, v \in ReturnValues, b \in Bodies,
      s \in 0..1, seg \in CallerSegments }

\* the memory before the call: SP, the four segment pointers, and anything
\* in the other words
RamInit(sc) ==
    [a \in 0..RamTop |->
        IF a = 0 THEN sc.SP0
        ELSE IF a \in 1..4 THEN sc.segments[a]
        ELSE (a * 7 + 1) % Word]

---------------------------------------------------------------------------
(* Runs of translated programs: one push or pop of a memory segment *)

MaxIndex == 3

\* the segments that are cells of the RAM
Segments == {<<"a", "r", "g", "u", "m", "e", "n", "t">>, <<"l", "o", "c", "a", "l">>, <<"t", "h", "i", "s">>, <<"t", "h", "a", "t">>, <<"p", "o", "i", "n", "t", "e", "r">>, <<"t", "e", "m", "p">>}

\* what LCL, ARG, THIS and THAT hold before the command
SegmentBases == {<<262, 264, 266, 268>>, <<268, 262, 262, 265>>}

\* the lines written for a push or a pop, loaded
PushPopPrograms ==
    [c \in {C_PUSH, C_POP}, s \in Segments, i \in 0..MaxIndex |->
        LET text == writePushPop(CodeWriterInit(<<"F", "o", "o", ".", "a", "s", "m">>), c, s, i)
        IN [rom |-> Load(text), stop |-> CodeLength(text)]]

\* the runs: the stack pointer is at SP0, the command is the whole program
PushPopScenarios ==
    { [kind |-> "pushpop", command |-> c, segment |-> s, index |-> i, SP0 |-> sp,
       segments |-> seg, stop |-> PushPopPrograms[c, s, i].stop] :
      c \in {C_PUSH, C_POP}, s \in Segments, i \in 0..MaxIndex, sp \in {258, 260},
      seg \in SegmentBases }

---------------------------------------------------------------------------
(* Runs of translated programs: one arithmetic or logical command *)

\* the commands that compute, and the commands that compare
Computations == {<<"a", "d", "d">>, <<"s", "u", "b">>, <<"a", "n", "d">>, <<"o", "r">>, <<"n", "e", "g">>, <<"n", "o", "t">>}

Comparing == {<<"g", "t">>, <<"l", "t">>, <<"e", "q">>}

\* the words on the stack: 0, 1, 7, 8, 0x5555, 32767, -32768, 0xAAAA, -1
Operands == {0, 1, 7, 8, 21845, 32767, 32768, 43690, 65535}

\* the lines written for a command, loaded
ArithPrograms ==
    [c \in Computations \cup Comparing |->
        LET text == writeArithmetic(CodeWriterInit(<<"F", "o", "o", ".", "a", "s", "m">>), c).text
        IN [rom |-> Load(text), stop |-> CodeLength(text)]]

\* the runs: x and y are the two top values of the stack, y on top
ArithScenarios ==
    { [kind |-> "arith", command |-> c, x |-> x, y |-> y, SP0 |-> 258,
       segments |-> <<262, 264, 266, 268>>, stop |-> ArithPrograms[c].stop] :
      c \in Computations \cup Comparing, x \in Operands, y \in Operands }

\* the lines written for push constant 7, push constant 8, add
SumText ==
    writePushPop(CodeWriterInit(<<"F", "o", "o", ".", "a", "s", "m">>), C_PUSH, <<"c", "o", "n", "s", "t", "a", "n", "t">>, 7)
        \o writePushPop(CodeWriterInit(<<"F", "o", "o", ".", "a", "s", "m">>), C_PUSH, <<"c", "o", "n", "s", "t", "a", "n", "t">>, 8)
        \o writeArithmetic(CodeWriterInit(<<"F", "o", "o", ".", "a", "s", "m">>), <<"a", "d", "d">>).text

SumProgram == [rom |-> Load(SumText), stop |-> CodeLength(SumText)]

\* the run of that program, from an empty stack
SumScenarios ==
    { [kind |-> "sum", SP0 |-> 256, segments |-> <<262, 264, 266, 268>>,
       stop |-> SumProgram.stop] }

\* the memory before a command: x and y on the stack
StackInit(sc) ==
    [RamInit(sc) EXCEPT ![sc.SP0 - 2] = sc.x, ![sc.SP0 - 1] = sc.y]

\* the program of a run, loaded
Program(sc) ==
    CASE sc.kind = "call" -> CallPrograms[sc.n, sc.k, sc.v, sc.body].rom
      [] sc.kind = "pushpop" -> PushPopPrograms[sc.command, sc.segment, sc.index].rom
      [] sc.kind = "arith" -> ArithPrograms[sc.command].rom
      [] sc.kind = "sum" -> SumProgram.rom

HackInit ==
    /\ scenario \in CallScenarios \cup PushPopScenarios \cup ArithScenarios \cup SumScenarios
    /\ rom = Program(scenario)
    /\ ip = 0
    /\ prev = -1
    /\ regA = 0
    /\ regD = 0
    /\ ram = IF scenario.kind = "arith" THEN StackInit(scenario) ELSE RamInit(scenario)
    /\ AsmIdle
    /\ VMIdle

SpecHack == HackInit /\ [][HackNext]_vars

\* the run has executed the jump that ends the return of the function called
Returned == scenario.kind = "call" /\ prev = scenario.retJump

(* C20: when the return of the function called has executed, control is at *)
(* the instruction that follows the call (the address its return label is  *)
(* bound to), LCL, ARG, THIS and THAT hold what they held before the call, *)
(* the n arguments are replaced by the value returned: RAM[SP0 - n] is the *)
(* value and SP is SP0 - n + 1. For every n >= 0.                          *)
C20_CallReturn ==
    Returned =>
        /\ ip = scenario.stop
        /\ <<ram[1], ram[2], ram[3], ram[4]>> = scenario.segments
        /\ ram[scenario.SP0 - scenario.n] = scenario.v
        /\ ram[0] = scenario.SP0 - scenario.n + 1

\* a call without arguments has returned: the value is where the return
\* address was pushed
C20_Witness ==
    /\ Returned
    /\ scenario.n = 0
    /\ scenario.body = 2
    /\ scenario.v = 32767
    /\ ram[scenario.SP0] = scenario.v

\* every run returns to the caller
C20_Returns == <>(ip = scenario.stop)

SpecHackFair == SpecHack /\ WF_vars(HackNext)

\* the run has executed the jump that ends the code of the call
Called == scenario.kind = "call" /\ prev = scenario.stop - 1

(* C21: at the jump to f that ends the code of call f n, RAM[SP0] is the   *)
(* address of the return label, RAM[SP0+1..SP0+4] are the caller's LCL,    *)
(* ARG, THIS and THAT in that order, ARG is SP0 - n (SP0 for n = 0), LCL   *)
(* and SP are SP0 + 5, and THIS and THAT are unchanged.                    *)
C21_CallFrame ==
    Called =>
        /\ ip = CallPrograms[scenario.n, scenario.k, scenario.v, scenario.body].callee
        /\ ram[scenario.SP0] = scenario.stop
        /\ <<ram[scenario.SP0 + 1], ram[scenario.SP0 + 2],
             ram[scenario.SP0 + 3], ram[scenario.SP0 + 4]>> = scenario.segments
        /\ ram[2] = scenario.SP0 - scenario.n
        /\ ram[1] = scenario.SP0 + 5
        /\ ram[0] = scenario.SP0 + 5
        /\ ram[3] = scenario.segments[3]
        /\ ram[4] = scenario.segments[4]

\* a call without arguments has jumped to the function: ARG is SP0
C21_Witness ==
    /\ Called
    /\ scenario.n = 0
    /\ scenario.segments[1] = 65535
    /\ ram[2] = scenario.SP0
    /\ ram[scenario.SP0 + 1] = 65535

\* the cell of the RAM that index i of segment s is, in the run sc
Cell(sc, s, i) ==
    CASE s = <<"a", "r", "g", "u", "m", "e", "n", "t">> -> sc.segments[2] + i
      [] s = <<"l", "o", "c", "a", "l">> -> sc.segments[1] + i
      [] s = <<"t", "h", "i", "s">> -> sc.segments[3] + i
      [] s = <<"t", "h", "a", "t">> -> sc.segments[4] + i
      [] s = <<"p", "o", "i", "n", "t", "e", "r">> -> 3 + i
      [] s = <<"t", "e", "m", "p">> -> 5 + i

\* the code of the push or pop has been executed
PushPopDone == scenario.kind = "pushpop" /\ ip = scenario.stop

(* C22: push s i stores what the cell of segment s at index i held at      *)
(* RAM[SP_old] and leaves SP = SP_old + 1; pop s i stores the former top   *)
(* of the stack in the same cell and leaves SP = SP_old - 1. The cell is   *)
(* RAM[base] + i for argument, local, this and that (base ARG, LCL, THIS,  *)
(* THAT), 3 + i for pointer and 5 + i for temp, for index 0, 1 and larger. *)
C22_SegmentCell ==
    PushPopDone =>
        LET cell == Cell(scenario, scenario.segment, scenario.index)
            before == RamInit(scenario)
        IN IF scenario.command = C_PUSH
           THEN /\ ram[scenario.SP0] = before[cell]
                /\ ram[0] = scenario.SP0 + 1
           ELSE /\ ram[cell] = before[scenario.SP0 - 1]
                /\ ram[0] = scenario.SP0 - 1

\* a pop to an index above 1 of a segment with a base pointer is done
C22_Witness ==
    /\ PushPopDone
    /\ scenario.command = C_POP
    /\ scenario.segment = <<"t", "h", "a", "t">>
    /\ scenario.index = 3
    /\ ram[scenario.segments[4] + 3] = RamInit(scenario)[scenario.SP0 - 1]

\* what a command that computes leaves for x (below) and y (top)
Computed(c, x, y) ==
    CASE c = <<"a", "d", "d">> -> (x + y) % Word
      [] c = <<"s", "u", "b">> -> (x - y + Word) % Word
      [] c = <<"a", "n", "d">> -> And16(x, y)
      [] c = <<"o", "r">> -> Or16(x, y)
      [] c = <<"n", "e", "g">> -> (Word - y) % Word
      [] c = <<"n", "o", "t">> -> Word - 1 - y

\* the code of a command that computes has been executed
ComputationDone ==
    scenario.kind = "arith" /\ scenario.command \in Computations /\ ip = scenario.stop

\* the code of push constant 7, push constant 8, add has been executed
SumDone == scenario.kind = "sum" /\ ip = scenario.stop

(* C23: add, sub, and, or leave x+y, x-y, x&y, x|y (16-bit) in the slot of *)
(* x, the lower of the two top values, and SP decreased by 1; neg and not  *)
(* replace the top value y by -y and !y and leave SP unchanged; push       *)
(* constant 7, push constant 8, add leaves 15 on top and SP one past it.   *)
C23_Arithmetic ==
    /\ ComputationDone =>
           IF scenario.command \in {<<"n", "e", "g">>, <<"n", "o", "t">>}
           THEN /\ ram[scenario.SP0 - 1] = Computed(scenario.command, scenario.x, scenario.y)
                /\ ram[0] = scenario.SP0
           ELSE /\ ram[scenario.SP0 - 2] = Computed(scenario.command, scenario.x, scenario.y)
                /\ ram[0] = scenario.SP0 - 1
    /\ SumDone => ram[scenario.SP0] = 15 /\ ram[0] = scenario.SP0 + 1

\* a subtraction below zero is done: 7 - 8 is -1
C23_Witness ==
    /\ ComputationDone
    /\ scenario.command = <<"s", "u", "b">>
    /\ scenario.x = 7
    /\ scenario.y = 8
    /\ ram[scenario.SP0 - 2] = 65535

\* the relation a command that compares tests, on signed 16-bit integers
Holds(c, x, y) ==
    CASE c = <<"g", "t">> -> Signed(x) > Signed(y)
      [] c = <<"l", "t">> -> Signed(x) < Signed(y)
      [] c = <<"e", "q">> -> Signed(x) = Signed(y)

\* the code of a command that compares has been executed
ComparisonDone ==
    scenario.kind = "arith" /\ scenario.command \in Comparing /\ ip = scenario.stop

(* C24: gt, lt, eq leave -1 in the slot of x, the lower of the two top     *)
(* values, exactly when x > y, x < y, x = y as signed 16-bit integers, and *)
(* 0 otherwise, with SP decreased by 1; also when x - y wraps around.      *)
C24_Comparison ==
    ComparisonDone =>
        /\ ram[scenario.SP0 - 2] =
               IF Holds(scenario.command, scenario.x, scenario.y) THEN Word - 1 ELSE 0
        /\ ram[0] = scenario.SP0 - 1

====
